---- MODULE Spec2Model ----
(***************************************************************************)
(* Model of go-lbfgsb: the Fortran driver lbfgsb_minimize and its task     *)
(* interpreter (lbfgsb_c.f03), and the Go solver object Lbfgsb with its    *)
(* bounds encoding (lbfgsb.go).  The numerical routine setulb and the      *)
(* caller's objective, gradient and logging functions are the environment. *)
(***************************************************************************)
EXTENDS Integers, Sequences, FiniteSets, TLC

(***************************************************************************)
(* Bounds of the model.                                                    *)
(***************************************************************************)
\* Longest generated task token (over TokAlphabet) fed to interpret_task.
MaxTokLen == 3
\* Largest dimensionality of a problem.
MaxDim == 2
\* Most solver invocations followed in one run of the driver loop.
MaxSolverCalls == 2
\* Entries of a parameters map for the keys Minimize looks up.
MaxEntries == 2

(***************************************************************************)
(* Program constants.                                                      *)
(***************************************************************************)
task_size == 60
bufferSize == 250
message_size == 2 * task_size

LBFGSB_STATUS_SUCCESS == 0
LBFGSB_STATUS_APPROXIMATE == 1
LBFGSB_STATUS_WARNING == 2
LBFGSB_STATUS_FAILURE == 3
LBFGSB_STATUS_USAGE_ERROR == 4
LBFGSB_STATUS_INTERNAL_ERROR == 5

StatusCodes ==
  { LBFGSB_STATUS_SUCCESS, LBFGSB_STATUS_APPROXIMATE, LBFGSB_STATUS_WARNING,
    LBFGSB_STATUS_FAILURE, LBFGSB_STATUS_USAGE_ERROR,
    LBFGSB_STATUS_INTERNAL_ERROR }

\* Mutant: the locals and the function result start with a nonzero value.
finit_local_nonzero == LBFGSB_STATUS_FAILURE

\* Locals and the function result start as zero: the build initialises them
\* with the compiler option -finit-local-zero.
finit_local_zero == 0

(***************************************************************************)
(* Fortran character values.  A character(len=n) variable is modelled by   *)
(* its content without the trailing blanks that pad it to n characters.    *)
(***************************************************************************)
Blank == " "
c_null_char == "NUL"

Min(a, b) == IF a <= b THEN a ELSE b

\* F applied to the value of x, with x evaluated once.
Apply(x, F(_)) == CHOOSE r \in { F(v) : v \in {x} } : TRUE

\* Intrinsic len_trim(s): the position of the last non-blank character, 0
\* when there is none.
len_trim(s) ==
  Apply(s, LAMBDA v :
    IF Len(v) = 0 THEN 0
    ELSE IF v[Len(v)] # Blank THEN Len(v)
    ELSE IF \A i \in 1..Len(v) : v[i] = Blank THEN 0
    ELSE CHOOSE i \in 1..Len(v) :
           v[i] # Blank /\ \A j \in (i + 1)..Len(v) : v[j] = Blank)

\* s(lo:hi) of a character variable holding s; zero length when hi < lo.
FSub(s, lo, hi) ==
  IF hi < lo THEN << >>
  ELSE Apply(s, LAMBDA v :
         IF hi <= Len(v) THEN SubSeq(v, lo, hi)
         ELSE IF lo <= Len(v)
              THEN SubSeq(v, lo, Len(v)) \o [i \in 1..(hi - Len(v)) |-> Blank]
         ELSE [i \in 1..(hi - lo + 1) |-> Blank])

\* Assignment of the value s to a character(len=n) variable: truncated to n
\* characters, blank padded (and so kept without trailing blanks).
FAssign(s, n) ==
  Apply(s, LAMBDA v :
    Apply(SubSeq(v, 1, Min(Len(v), n)), LAMBDA cut :
      SubSeq(cut, 1, len_trim(cut))))

\* Fortran comparison of character values: the shorter is blank padded.
FEq(a, b) ==
  Apply(a, LAMBDA v : SubSeq(v, 1, len_trim(v)))
    = Apply(b, LAMBDA v : SubSeq(v, 1, len_trim(v)))

\* Intrinsic index(s, c) for a one-character c: first position, 0 if none.
index(s, c) ==
  IF \E i \in 1..Len(s) : s[i] = c
  THEN CHOOSE i \in 1..Len(s) :
         Apply(s, LAMBDA v : v[i] = c /\ \A j \in 1..(i - 1) : v[j] # c)
  ELSE 0

(***************************************************************************)
(* Task tokens.                                                            *)
(***************************************************************************)
K_START ==
  <<"S","T","A","R","T">>
K_FG ==
  <<"F","G">>
K_FG_LNSRCH ==
  <<"F","G","_","L","N","S","R","C","H">>
K_FG_START ==
  <<"F","G","_","S","T","A","R","T">>
K_NEW_X ==
  <<"N","E","W","_","X">>
K_CONVERGENCE ==
  <<"C","O","N","V","E","R","G","E","N","C","E">>
K_ABNORMAL ==
  <<"A","B","N","O","R","M","A","L","_","T","E","R","M","I","N","A","T","I",
    "O","N","_","I","N","_","L","N","S","R","C","H">>
K_WARNING ==
  <<"W","A","R","N","I","N","G">>
K_ERROR ==
  <<"E","R","R","O","R">>

\* 'START'
T_START ==
  <<"S","T","A","R","T">>
\* 'FG'
T_FG ==
  <<"F","G">>
\* 'FG_LNSRCH'
T_FG_LNSRCH ==
  <<"F","G","_","L","N","S","R","C","H">>
\* 'FG_START'
T_FG_START ==
  <<"F","G","_","S","T","A","R","T">>
\* 'NEW_X'
T_NEW_X ==
  <<"N","E","W","_","X">>
\* 'CONVERGENCE'
T_CONVERGENCE ==
  <<"C","O","N","V","E","R","G","E","N","C","E">>
\* 'CONVERGENCE: NORM_OF_PROJECTED_GRADIENT_<=_PGTOL'
T_CONV_PGTOL ==
  <<"C","O","N","V","E","R","G","E","N","C","E",":"," ","N","O","R","M","_",
    "O","F","_","P","R","O","J","E","C","T","E","D","_","G","R","A","D","I",
    "E","N","T","_","<","=","_","P","G","T","O","L">>
\* 'ABNORMAL_TERMINATION_IN_LNSRCH'
T_ABNORMAL ==
  <<"A","B","N","O","R","M","A","L","_","T","E","R","M","I","N","A","T","I",
    "O","N","_","I","N","_","L","N","S","R","C","H">>
\* 'RESTART_FROM_LNSRCH'
T_RESTART ==
  <<"R","E","S","T","A","R","T","_","F","R","O","M","_","L","N","S","R","C",
    "H">>
\* 'ERROR: NO FEASIBLE SOLUTION'
T_ERR_INFEASIBLE ==
  <<"E","R","R","O","R",":"," ","N","O"," ","F","E","A","S","I","B","L","E",
    " ","S","O","L","U","T","I","O","N">>
\* 'ERROR'
T_ERROR ==
  <<"E","R","R","O","R">>
\* 'WARNING: XTOL TEST SATISFIED'
T_WARN_XTOL ==
  <<"W","A","R","N","I","N","G",":"," ","X","T","O","L"," ","T","E","S","T",
    " ","S","A","T","I","S","F","I","E","D">>
\* 'WARNING'
T_WARNING ==
  <<"W","A","R","N","I","N","G">>
\* 'STOP'
T_STOP ==
  <<"S","T","O","P">>
\* ' START'
T_LEAD_BLANK ==
  <<" ","S","T","A","R","T">>
\* 'START : X'
T_START_BLANK_COLON ==
  <<"S","T","A","R","T"," ",":"," ","X">>
\* 'start'
T_start_lower ==
  <<"s","t","a","r","t">>
\* 'NEW_X: 1'
T_NEW_X_COLON ==
  <<"N","E","W","_","X",":"," ","1">>
\* 'ABNORMAL_TERMINATION_IN_LNSRCH: X'
T_ABNORMAL_COLON ==
  <<"A","B","N","O","R","M","A","L","_","T","E","R","M","I","N","A","T","I",
    "O","N","_","I","N","_","L","N","S","R","C","H",":"," ","X">>
\* 'CONVERGENCE: A: B'
T_CONV_TWO_COLONS ==
  <<"C","O","N","V","E","R","G","E","N","C","E",":"," ","A",":"," ","B">>
\* ':CONVERGENCE'
T_COLON_CONV ==
  <<":","C","O","N","V","E","R","G","E","N","C","E">>
\* 'ERRORS: X'
T_ERRORS ==
  <<"E","R","R","O","R","S",":"," ","X">>
\* 'FG: X'
T_FG_DETAIL ==
  <<"F","G",":"," ","X">>
\* 'FG_START: X'
T_FG_START_DETAIL ==
  <<"F","G","_","S","T","A","R","T",":"," ","X">>
\* 'WARNING:X'
T_WARNING_NOBLANK ==
  <<"W","A","R","N","I","N","G",":","X">>
\* 'ERROR:'
T_ERROR_COLON ==
  <<"E","R","R","O","R",":">>
\* 'CONVERGENCE:  X'
T_CONV_BLANKS ==
  <<"C","O","N","V","E","R","G","E","N","C","E",":"," "," ","X">>
\* 'NEW_X :'
T_NEW_X_BLANK_COLON ==
  <<"N","E","W","_","X"," ",":">>

SolverTokens ==
  { T_START, T_FG, T_FG_LNSRCH, T_FG_START, T_NEW_X, T_CONVERGENCE,
    T_CONV_PGTOL, T_ABNORMAL, T_RESTART, T_ERR_INFEASIBLE, T_ERROR,
    T_WARN_XTOL, T_WARNING, T_STOP, T_LEAD_BLANK, T_START_BLANK_COLON,
    T_start_lower, T_NEW_X_COLON, T_ABNORMAL_COLON, T_CONV_TWO_COLONS,
    T_COLON_CONV, T_ERRORS, T_FG_DETAIL, T_FG_START_DETAIL,
    T_WARNING_NOBLANK, T_ERROR_COLON, T_CONV_BLANKS, T_NEW_X_BLANK_COLON }

\* Generated tokens: every string over TokAlphabet of at most MaxTokLen
\* characters, the empty token included.
TokAlphabet == {"F", "G", ":", Blank}

RECURSIVE StringsUpTo(_)
StringsUpTo(n) ==
  IF n = 0 THEN { << >> }
  ELSE LET shorter == StringsUpTo(n - 1)
       IN shorter \cup { Append(s, c) : s \in shorter, c \in TokAlphabet }

\* The values a character(len=task_size) task variable is given.
TaskTokens ==
  { FAssign(t, task_size) : t \in SolverTokens \cup StringsUpTo(MaxTokLen) }

(***************************************************************************)
(* interpret_task (lbfgsb_c.f03).                                          *)
(***************************************************************************)
MsgUnrecognizedTask ==
  <<"U","n","r","e","c","o","g","n","i","z","e","d"," ","t","a","s","k",":",
    " ">>
MsgUnrecognizedState ==
  <<"E","r","r","o","r",":"," ","U","n","r","e","c","o","g","n","i","z","e",
    "d"," ","s","t","a","t","e",":"," ">>
MsgLoggingFailed ==
  <<"E","r","r","o","r",":"," ","L","o","g","g","i","n","g"," ","f","u","n",
    "c","t","i","o","n"," ","f","a","i","l","e","d">>

\* The first word of the task: cut at the first colon, else the whole
\* trimmed task.
task_word(task) ==
  Apply(index(task, ":") - 1, LAMBDA colon :
    Apply(IF colon = -1 THEN len_trim(task) ELSE colon, LAMBDA cut_index :
      FSub(task, 1, cut_index)))

\* Mutant: the case list lacks 'FG_LNSRCH'.
word_state_no_fg_lnsrch(word) ==
  CASE FEq(word, K_START) -> "START"
    [] FEq(word, K_FG) \/ FEq(word, K_FG_START) -> "EVAL_FG"
    [] FEq(word, K_NEW_X) -> "NEW_X"
    [] FEq(word, K_CONVERGENCE) -> "CONVERGENCE"
    [] FEq(word, K_ABNORMAL) -> "ABNORMAL"
    [] FEq(word, K_WARNING) -> "WARNING"
    [] FEq(word, K_ERROR) -> "ERROR_USAGE"
    [] OTHER -> "ERROR_INTERNAL"

\* select case (task(1:cut_index)): the state.
word_state(word) ==
  CASE FEq(word, K_START) -> "START"
    [] FEq(word, K_FG) \/ FEq(word, K_FG_LNSRCH) \/ FEq(word, K_FG_START)
         -> "EVAL_FG"
    [] FEq(word, K_NEW_X) -> "NEW_X"
    [] FEq(word, K_CONVERGENCE) -> "CONVERGENCE"
    [] FEq(word, K_ABNORMAL) -> "ABNORMAL"
    [] FEq(word, K_WARNING) -> "WARNING"
    [] FEq(word, K_ERROR) -> "ERROR_USAGE"
    [] OTHER -> "ERROR_INTERNAL"

\* Mutant: the detail is cut one character early, keeping the blank that
\* follows the colon.
state_message_off_by_one(st, task) ==
  CASE st = "CONVERGENCE" -> FSub(task, 13, task_size)
    [] st = "ABNORMAL" -> task
    [] st = "WARNING" -> FSub(task, 9, task_size)
    [] st = "ERROR_USAGE" -> FSub(task, 7, task_size)
    [] st = "ERROR_INTERNAL" -> MsgUnrecognizedTask \o task
    [] OTHER -> <<Blank>>

\* Mutant: the default case reports no token.
state_message_no_token(st, task) ==
  CASE st = "CONVERGENCE" -> FSub(task, 14, task_size)
    [] st = "ABNORMAL" -> task
    [] st = "WARNING" -> FSub(task, 10, task_size)
    [] st = "ERROR_USAGE" -> FSub(task, 8, task_size)
    [] st = "ERROR_INTERNAL" -> MsgUnrecognizedTask
    [] OTHER -> <<Blank>>

\* The message each case of the select assigns (message = ' ' before it).
state_message(st, task) ==
  CASE st = "CONVERGENCE" -> FSub(task, 14, task_size)
    [] st = "ABNORMAL" -> task
    [] st = "WARNING" -> FSub(task, 10, task_size)
    [] st = "ERROR_USAGE" -> FSub(task, 8, task_size)
    [] st = "ERROR_INTERNAL" -> MsgUnrecognizedTask \o task
    [] OTHER -> <<Blank>>

interpret_task(task) ==
  Apply(task_word(task), LAMBDA word :
    Apply(word_state(word), LAMBDA st :
      [ state |-> st,
        message |-> FAssign(state_message(st, task), message_size) ]))

(***************************************************************************)
(* C strings and vectors.                                                  *)
(***************************************************************************)
\* convert_f_c_string (lbfgsb_c.f03): the C character array of the given
\* size that the Fortran string is converted to.
convert_f_c_string(string_f, size) ==
  Apply(Min(len_trim(string_f), size - 1), LAMBDA length :
    SubSeq(string_f, 1, length) \o [i \in 1..(size - length) |-> c_null_char])

\* status_message_c = c_null_char: the whole array filled with nulls.
NullString(size) == [i \in 1..size |-> c_null_char]

\* C.GoString: the characters before the first null.
GoString(buf) ==
  Apply(buf, LAMBDA b :
    Apply(index(b, c_null_char), LAMBDA n :
      IF n = 0 THEN b ELSE SubSeq(b, 1, n - 1)))

\* Abstract real values; 0 is the value 0d0.
Vals == {0, 1}
Zeros(n) == [i \in 1..n |-> 0]
Ones(n) == [i \in 1..n |-> 1]
\* The vectors the solver and the callbacks produce: one value in every
\* component.
Vectors(n) == { [i \in 1..n |-> v] : v \in Vals }

(***************************************************************************)
(* State.                                                                  *)
(***************************************************************************)
VARIABLES
  \* lbfgsb_minimize: arguments
  caller,            \* who supplies the callbacks: a C program or the Go package
  dim_c,
  log_function,      \* "null" or "set"
  initial_point_c,
  \* lbfgsb_minimize: locals
  task, state, message,
  point, func_value, grad_value,
  int_state,         \* int_state(30) and int_state(34): iteration, evaluations
  \* lbfgsb_minimize: results
  status_c,
  status_message_c,  \* the C string in the buffer: the text before its first null
  min_x_c, min_f_c, min_g_c, iters_c, evals_c,
  \* position of the run and history of its calls
  pc,
  calls,             \* number of setulb, objective, gradient, logging calls
  failure,           \* the callback that reported failure and its code
  panicked,          \* the caller's function panicked inside the Go adapter
  trace,             \* the states interpret_task gave, one per solver call
  \* Lbfgsb solver object (lbfgsb.go)
  dimensionality, lowerBounds, upperBounds,
  approximationSize, fTolerance, gTolerance, printControl,
  statistics,
  gopc,              \* "idle", or "solver" while lbfgsb_minimize_c runs
  solverArgs,        \* the arguments of the call to lbfgsb_minimize_c
  exitStatus,        \* the exit status of the latest call of Minimize
  minimizeCall,      \* the latest call of Minimize: its arguments, and
                     \* whether it called lbfgsb_minimize_c; presented:
                     \* the bounds the solver was last given, if the bounds
                     \* have not been set since
  \* calls of Minimize on distinct solver objects running at the same time
  frames,            \* the position of each call
  accessed,          \* for each storage cell, the calls that read or wrote it
  \* the map a caller has made to give SetBoundsSparse
  sparseBounds,
  \* the latest call of ExitStatus.AsError: its receiver and its result
  asError

taskVars == <<task, state, message, pc>>
frameVars == <<frames, accessed>>
argVars ==
  <<caller, dim_c, log_function, initial_point_c, frameVars, sparseBounds,
    asError>>
localVars == <<point, func_value, grad_value, int_state>>
resultVars ==
  <<status_c, status_message_c, min_x_c, min_f_c, min_g_c, iters_c, evals_c>>
historyVars == <<calls, failure, panicked, trace>>
driverVars == <<argVars, localVars, resultVars, historyVars>>
paramVars == <<approximationSize, fTolerance, gTolerance, printControl>>
callVars == <<statistics, gopc, solverArgs, exitStatus, minimizeCall>>
goVars ==
  <<dimensionality, lowerBounds, upperBounds, paramVars, callVars>>
vars == <<taskVars, driverVars, goVars>>

\* A nil slice.  An allocated slice has the solver's dimensionality, which
\* is at least 1, so the empty sequence stands for nil only.
nil == << >>

\* No call of lbfgsb_minimize_c in progress.
NoSolverArgs ==
  [ dim |-> 0, bounds_control |-> << >>, lower_bounds |-> << >>,
    upper_bounds |-> << >>, approximation_size |-> 0, f_tolerance |-> "0",
    g_tolerance |-> "0", print_control |-> 0 ]

\* The values of ExitStatusCode (optim.go), and the zero value of
\* ExitStatus.
SUCCESS == 0
APPROXIMATE == 1
WARNING == 2
FAILURE == 3
USAGE_ERROR == 4
INTERNAL_ERROR == 5
NoExitStatus == [Code |-> 0, Message |-> ""]

\* The nil error, and no call of AsError yet.
NilError == [isNil |-> TRUE, status |-> NoExitStatus]
NoAsError == [called |-> FALSE, of |-> NoExitStatus, error |-> NilError]

\* The zero value of OptimizationStatistics.
ZeroStatistics ==
  [Iterations |-> 0, FunctionEvaluations |-> 0, GradientEvaluations |-> 0]

\* No bounds presented to the solver for the bounds as they are stored now.
NotPresented ==
  [bounds_control |-> << >>, lower_bounds |-> << >>, upper_bounds |-> << >>]

\* No call of Minimize yet.
NoMinimizeCall ==
  [ made |-> FALSE, initialPoint |-> 0, presented |-> NotPresented,
    parameters |->
      [ k \in {"approximationSize", "fTolerance", "gTolerance",
               "printControl", "maxIterations"} |->
          [type |-> "absent", int |-> 0, float |-> "0"] ],
    solver |-> FALSE ]

NoCalls == [setulb |-> 0, func |-> 0, grad |-> 0, log |-> 0]

\* No calls running at the same time are followed.
NoFrames ==
  /\ frames = << >>
  /\ accessed = << >>

\* The caller has made no map of sparse bounds and has not asked for an
\* error.
NoSparseBounds ==
  /\ sparseBounds = << >>
  /\ asError = NoAsError
NoFailure == [by |-> "none", code |-> LBFGSB_STATUS_SUCCESS]

\* A solver object nobody has touched: the zero value of Lbfgsb.
GoZeroValue ==
  /\ dimensionality = 0
  /\ lowerBounds = nil
  /\ upperBounds = nil
  /\ approximationSize = 0
  /\ fTolerance = "0"
  /\ gTolerance = "0"
  /\ printControl = 0
  /\ statistics = ZeroStatistics
  /\ gopc = "idle"
  /\ solverArgs = NoSolverArgs
  /\ exitStatus = NoExitStatus
  /\ minimizeCall = NoMinimizeCall

\* No run of lbfgsb_minimize in progress.
DriverIdle ==
  /\ caller = "c" /\ dim_c = 1 /\ log_function = "null"
  /\ initial_point_c = Zeros(1)
  /\ point = Zeros(1) /\ func_value = 0 /\ grad_value = Zeros(1)
  /\ int_state = [iter |-> 0, evals |-> 0]
  /\ status_c = finit_local_zero
  /\ status_message_c = << >>
  /\ min_x_c = Zeros(1) /\ min_f_c = 0 /\ min_g_c = Zeros(1)
  /\ iters_c = 0 /\ evals_c = 0
  /\ calls = NoCalls /\ failure = NoFailure /\ panicked = FALSE
  /\ trace = << >>

(***************************************************************************)
(* SpecInterp: interpret_task applied to every task token.                 *)
(***************************************************************************)
InitInterp ==
  /\ task \in TaskTokens
  /\ state = "START"
  /\ message = << >>
  /\ pc = "interp"
  /\ DriverIdle
  /\ NoFrames
  /\ NoSparseBounds
  /\ GoZeroValue

InterpretTask ==
  /\ pc = "interp"
  /\ LET r == interpret_task(task)
     IN /\ state' = r.state
        /\ message' = r.message
  /\ pc' = "interpreted"
  /\ UNCHANGED <<task, driverVars, goVars>>

NextInterp == InterpretTask

SpecInterp == InitInterp /\ [][NextInterp]_vars

(***************************************************************************)
(* lbfgsb_minimize (lbfgsb_c.f03): the driver loop.                        *)
(***************************************************************************)
\* What a failing callback of a C program writes to the status message.
MsgObjectiveFailed == <<"o","b","j","e","c","t","i","v","e">>
MsgGradientFailed == <<"g","r","a","d","i","e","n","t">>

\* Mutant: a warning leaves the loop.
LoopCondition_no_warning(st) == st \in {"EVAL_FG", "NEW_X", "START"}

\* Mutant: no state leaves the loop.
LoopCondition_never_exits(st) == TRUE

\* do while (state == 'EVAL_FG' .or. 'NEW_X' .or. 'WARNING' .or. 'START')
LoopCondition(st) == st \in {"EVAL_FG", "NEW_X", "WARNING", "START"}

\* Mutant: a warning is logged like a new iterate.
dispatch_eval_on_warning(st) ==
  CASE st \in {"EVAL_FG", "WARNING"} -> "func"
    [] st = "NEW_X" -> "log"
    [] OTHER -> "none"

dispatch_eval_on_new_x(st) ==
  CASE st \in {"EVAL_FG", "NEW_X"} -> "func"
    [] OTHER -> "none"

dispatch_log_on_warning(st) ==
  CASE st = "EVAL_FG" -> "func"
    [] st \in {"NEW_X", "WARNING"} -> "log"
    [] OTHER -> "none"

\* select case (state) in the loop: the callback a state calls for.
dispatch(st) ==
  CASE st = "EVAL_FG" -> "func"
    [] st = "NEW_X" -> "log"
    [] OTHER -> "none"

\* Mutant: a failing callback does not leave the loop.
terminate_never(status) == FALSE

\* if (status_c /= LBFGSB_STATUS_SUCCESS) exit
terminate_on_error(status) == status # LBFGSB_STATUS_SUCCESS

\* Mutant: abnormal termination reported as success.
exit_status_code_abnormal_ok(st) ==
  CASE st = "CONVERGENCE" -> LBFGSB_STATUS_SUCCESS
    [] st = "ABNORMAL" -> LBFGSB_STATUS_SUCCESS
    [] st = "WARNING" -> LBFGSB_STATUS_WARNING
    [] st = "ERROR_USAGE" -> LBFGSB_STATUS_USAGE_ERROR
    [] st = "ERROR_INTERNAL" -> LBFGSB_STATUS_INTERNAL_ERROR
    [] OTHER -> LBFGSB_STATUS_INTERNAL_ERROR

\* select case (state) after the loop: the exit status of a run whose
\* callbacks all succeeded.
exit_status_code(st) ==
  CASE st = "CONVERGENCE" -> LBFGSB_STATUS_SUCCESS
    [] st = "ABNORMAL" -> LBFGSB_STATUS_APPROXIMATE
    [] st = "WARNING" -> LBFGSB_STATUS_WARNING
    [] st = "ERROR_USAGE" -> LBFGSB_STATUS_USAGE_ERROR
    [] st = "ERROR_INTERNAL" -> LBFGSB_STATUS_INTERNAL_ERROR
    [] OTHER -> LBFGSB_STATUS_INTERNAL_ERROR

\* The message after that select: replaced in the default case only.
exit_message(st, tk, msg) ==
  IF st \in {"CONVERGENCE", "ABNORMAL", "WARNING", "ERROR_USAGE",
             "ERROR_INTERNAL"}
  THEN msg
  ELSE FAssign(MsgUnrecognizedState \o tk, message_size)

\* The tokens setulb returns in the runs followed: recognized keywords
\* and unrecognized tokens.
DriverTokens ==
  { FAssign(t, task_size) :
      t \in { T_FG, T_NEW_X, T_CONV_PGTOL, T_ABNORMAL, T_WARN_XTOL,
              T_ERR_INFEASIBLE, T_RESTART, T_STOP, T_COLON_CONV, << >> } }

\* By how much setulb advances its iteration and evaluation counters.
CounterSteps == { <<1, 0>>, <<0, 1>> }

\* The C string a caller reads from the buffer of bufferSize characters
\* after convert_f_c_string of a Fortran string.
StatusMessage(string_f) == GoString(convert_f_c_string(string_f, bufferSize))

\* Mutant: the gradient of the result is left as the caller passed it.
success_result_without_gradient(pt, fv, gv) ==
  [x |-> pt, f |-> fv, g |-> min_g_c]

\* min_x_c = point; min_f_c = func_value; min_g_c = grad_value
success_result(pt, fv, gv) == [x |-> pt, f |-> fv, g |-> gv]

\* Mutant: the results are left as the caller passed them.
failure_result_untouched == [x |-> min_x_c, f |-> min_f_c, g |-> min_g_c]

\* min_x_c = 0d0; min_f_c = 0d0; min_g_c = 0d0
failure_result == [x |-> Zeros(dim_c), f |-> 0, g |-> Zeros(dim_c)]

\* Mutant: a failed run reports LBFGSB_STATUS_FAILURE whatever the callback
\* returned.
failure_status_always_failure(status) == LBFGSB_STATUS_FAILURE

\* On a callback failure "the error message and code were already properly
\* set": the code is the one the callback returned.
failure_status(status) == status

\* ExitStatusCode(statusCode_c) (lbfgsb.go): conversion of the C int to the
\* uint8 ExitStatusCode.
ExitStatusCode(statusCode_c) == statusCode_c % 256

\* Mutant: the counts are returned by a run without callback failure only.
Finish_counts_on_success(st, tk, msg, status, smsg, pt, fv, gv, ist) ==
  /\ pc' = "done"
  /\ IF status = LBFGSB_STATUS_SUCCESS
     THEN /\ iters_c' = ist.iter
          /\ evals_c' = ist.evals
          /\ min_x_c' = success_result(pt, fv, gv).x
          /\ min_f_c' = success_result(pt, fv, gv).f
          /\ min_g_c' = success_result(pt, fv, gv).g
          /\ status_c' = exit_status_code(st)
          /\ message' = exit_message(st, tk, msg)
          /\ status_message_c' =
               StatusMessage(exit_message(st, tk, msg))
     ELSE /\ UNCHANGED <<iters_c, evals_c>>
          /\ min_x_c' = failure_result.x
          /\ min_f_c' = failure_result.f
          /\ min_g_c' = failure_result.g
          /\ status_c' = failure_status(status)
          /\ message' = msg
          /\ status_message_c' = smsg

\* Mutant: the task message is copied into the status message on every
\* exit.
Finish_message_on_every_exit(st, tk, msg, status, smsg, pt, fv, gv, ist) ==
  /\ pc' = "done"
  /\ iters_c' = ist.iter
  /\ evals_c' = ist.evals
  /\ status_message_c' = StatusMessage(exit_message(st, tk, msg))
  /\ IF status = LBFGSB_STATUS_SUCCESS
     THEN /\ min_x_c' = success_result(pt, fv, gv).x
          /\ min_f_c' = success_result(pt, fv, gv).f
          /\ min_g_c' = success_result(pt, fv, gv).g
          /\ status_c' = exit_status_code(st)
          /\ message' = exit_message(st, tk, msg)
     ELSE /\ min_x_c' = failure_result.x
          /\ min_f_c' = failure_result.f
          /\ min_g_c' = failure_result.g
          /\ status_c' = failure_status(status)
          /\ message' = msg

\* The code after the loop, with the values the locals have at loop exit.
Finish(st, tk, msg, status, smsg, pt, fv, gv, ist) ==
  /\ pc' = "done"
  /\ iters_c' = ist.iter
  /\ evals_c' = ist.evals
  /\ IF status = LBFGSB_STATUS_SUCCESS
     THEN /\ min_x_c' = success_result(pt, fv, gv).x
          /\ min_f_c' = success_result(pt, fv, gv).f
          /\ min_g_c' = success_result(pt, fv, gv).g
          /\ status_c' = exit_status_code(st)
          /\ message' = exit_message(st, tk, msg)
          /\ status_message_c' =
               StatusMessage(exit_message(st, tk, msg))
     ELSE /\ min_x_c' = failure_result.x
          /\ min_f_c' = failure_result.f
          /\ min_g_c' = failure_result.g
          /\ status_c' = failure_status(status)
          /\ message' = msg
          /\ status_message_c' = smsg

\* The run goes on at nextpc.
Continue(nextpc, msg, status, smsg) ==
  /\ pc' = nextpc
  /\ message' = msg
  /\ status_c' = status
  /\ status_message_c' = smsg
  /\ UNCHANGED <<min_x_c, min_f_c, min_g_c, iters_c, evals_c>>

\* The test of the loop condition at the end of a pass.
LoopTest(st, tk, msg, status, smsg, pt, fv, gv, ist) ==
  IF LoopCondition(st)
  THEN Continue("loop", msg, status, smsg)
  ELSE Finish(st, tk, msg, status, smsg, pt, fv, gv, ist)

\* The last callback of a pass returned `status`: exit on an error, else the
\* loop condition.
AfterCallback(st, tk, msg, status, smsg, pt, fv, gv, ist) ==
  IF terminate_on_error(status)
  THEN Finish(st, tk, msg, status, smsg, pt, fv, gv, ist)
  ELSE LoopTest(st, tk, msg, status, smsg, pt, fv, gv, ist)

\* Mutant: setulb is given the caller's array, which it writes.
initial_point_written_by_setulb(initial, pt) == pt

\* point = initial_point_c before the loop: setulb is given and writes
\* point, the copy, and initial_point_c (intent(in)) keeps its values.
initial_point_after_setulb(initial, pt) == initial

\* setulb (lbfgsb/lbfgsb.f) and its arguments f and g: it reads the values
\* of the previous evaluation and hands back the point, the task and its
\* working memory only.
setulb_f_g(fv, gv) == [f |-> fv, g |-> gv]

\* One pass of the loop up to its first callback: setulb returns a task and
\* a point and advances its counters, interpret_task classifies the task,
\* and the select dispatches on the state.
Setulb ==
  /\ pc = "loop"
  /\ LoopCondition(state)
  /\ calls.setulb < MaxSolverCalls
  /\ \E t \in DriverTokens : \E r \in {interpret_task(t)} :
     \E x \in Vectors(dim_c), d \in CounterSteps :
     \E fg \in {setulb_f_g(func_value, grad_value)} :
       LET ist == [iter |-> int_state.iter + d[1],
                   evals |-> int_state.evals + d[2]]
       IN /\ task' = t
          /\ point' = x
          /\ initial_point_c' = initial_point_after_setulb(initial_point_c, x)
          /\ func_value' = fg.f
          /\ grad_value' = fg.g
          /\ int_state' = ist
          /\ state' = r.state
          /\ trace' = Append(trace, r.state)
          /\ CASE dispatch(r.state) = "func" ->
                    /\ calls' = [calls EXCEPT !.setulb = @ + 1, !.func = @ + 1]
                    /\ Continue("func", r.message, status_c, status_message_c)
               [] dispatch(r.state) = "log" /\ log_function = "set" ->
                    /\ calls' = [calls EXCEPT !.setulb = @ + 1, !.log = @ + 1]
                    /\ Continue("log", r.message, status_c, status_message_c)
               [] dispatch(r.state) = "log" /\ log_function = "null" ->
                    \* call_logging_function returns success at once
                    /\ calls' = [calls EXCEPT !.setulb = @ + 1]
                    /\ AfterCallback(r.state, t, r.message,
                                     LBFGSB_STATUS_SUCCESS, status_message_c,
                                     x, fg.f, fg.g, ist)
               [] OTHER ->
                    /\ calls' = [calls EXCEPT !.setulb = @ + 1]
                    /\ LoopTest(r.state, t, r.message, status_c,
                                status_message_c, x, fg.f, fg.g, ist)
  /\ UNCHANGED <<caller, dim_c, log_function, frameVars, sparseBounds,
                 asError, failure, panicked, goVars>>

\* The Go adapters (lbfgsb.go): they call the caller's function and return
\* the zero status; nothing recovers a panic of that function, which then
\* unwinds out of the adapter.
go_objective_function_callback(outcome) ==
  IF outcome = "panic"
  THEN [returns |-> FALSE, status |-> LBFGSB_STATUS_SUCCESS]
  ELSE [returns |-> TRUE, status |-> LBFGSB_STATUS_SUCCESS]

go_objective_gradient_callback(outcome) ==
  IF outcome = "panic"
  THEN [returns |-> FALSE, status |-> LBFGSB_STATUS_SUCCESS]
  ELSE [returns |-> TRUE, status |-> LBFGSB_STATUS_SUCCESS]

\* A callback of a C program returns any of the status codes.
CCallbackOutcomes == { [returns |-> TRUE, status |-> c] : c \in StatusCodes }

ObjectiveOutcomes ==
  IF caller = "go"
  THEN { go_objective_function_callback(o) : o \in {"value", "panic"} }
  ELSE CCallbackOutcomes

GradientOutcomes ==
  IF caller = "go"
  THEN { go_objective_gradient_callback(o) : o \in {"value", "panic"} }
  ELSE CCallbackOutcomes

\* A panic leaves lbfgsb_minimize through its frames: the run never returns.
Unwind ==
  /\ pc' = "unwound"
  /\ panicked' = TRUE
  /\ UNCHANGED <<task, state, message, localVars, resultVars, calls, failure,
                 trace>>

\* status_c = func_pointer(dim_c, point, func_value, ...)
Objective ==
  /\ pc = "func"
  /\ \E out \in ObjectiveOutcomes, v \in Vals :
       IF ~out.returns
       THEN Unwind
       ELSE LET failed == out.status # LBFGSB_STATUS_SUCCESS
                smsg == IF failed
                        THEN StatusMessage(MsgObjectiveFailed)
                        ELSE status_message_c
            IN /\ func_value' = v
               /\ failure' = IF failed
                             THEN [by |-> "func", code |-> out.status]
                             ELSE failure
               /\ IF terminate_on_error(out.status)
                  THEN /\ Finish(state, task, message, out.status, smsg, point,
                                 v, grad_value, int_state)
                       /\ calls' = calls
                  ELSE /\ Continue("grad", message, out.status, smsg)
                       /\ calls' = [calls EXCEPT !.grad = @ + 1]
               /\ UNCHANGED <<task, state, point, grad_value, int_state,
                              panicked, trace>>
  /\ UNCHANGED <<argVars, goVars>>

\* status_c = grad_pointer(dim_c, point, grad_value, ...)
Gradient ==
  /\ pc = "grad"
  /\ \E out \in GradientOutcomes, gv \in Vectors(dim_c) :
       IF ~out.returns
       THEN Unwind
       ELSE LET failed == out.status # LBFGSB_STATUS_SUCCESS
                smsg == IF failed
                        THEN StatusMessage(MsgGradientFailed)
                        ELSE status_message_c
            IN /\ grad_value' = gv
               /\ failure' = IF failed
                             THEN [by |-> "grad", code |-> out.status]
                             ELSE failure
               /\ AfterCallback(state, task, message, out.status, smsg, point,
                                func_value, gv, int_state)
               /\ UNCHANGED <<task, state, point, func_value, int_state,
                              calls, panicked, trace>>
  /\ UNCHANGED <<argVars, goVars>>

\* Mutant: a failing logging function leaves the status message alone.
call_logging_function_no_message(status, smsg) ==
  [status |-> status, status_message |-> smsg]

\* call_logging_function with a logging function: it returns the function's
\* status, and on an error puts its own text in the status message.
call_logging_function(status, smsg) ==
  [ status |-> status,
    status_message |->
      IF status # LBFGSB_STATUS_SUCCESS
      THEN StatusMessage(MsgLoggingFailed)
      ELSE smsg ]

\* Mutant: the pass of a NEW_X task sets the task anew after logging.
Logging_starting_anew ==
  /\ pc = "log"
  /\ \E code \in StatusCodes :
       LET r == call_logging_function(code, status_message_c)
       IN /\ failure' = IF code # LBFGSB_STATUS_SUCCESS
                        THEN [by |-> "log", code |-> code]
                        ELSE failure
          /\ AfterCallback(state, task, message, r.status, r.status_message,
                           point, func_value, grad_value, int_state)
  /\ task' = FAssign(K_START, task_size)
  /\ UNCHANGED <<state, localVars, calls, panicked, trace, argVars, goVars>>

\* status_c = call_logging_function(log_function, ...)
Logging ==
  /\ pc = "log"
  /\ \E code \in StatusCodes :
       LET r == call_logging_function(code, status_message_c)
       IN /\ failure' = IF code # LBFGSB_STATUS_SUCCESS
                        THEN [by |-> "log", code |-> code]
                        ELSE failure
          /\ AfterCallback(state, task, message, r.status, r.status_message,
                           point, func_value, grad_value, int_state)
  /\ UNCHANGED <<task, state, localVars, calls, panicked, trace, argVars,
                 goVars>>

\* A call of lbfgsb_minimize, after its prologue: the point is the initial
\* point, the status message is all nulls, state and task are 'START'.
\* The Go package passes zeroed result arrays and no logging function; a C
\* program passes result buffers with whatever they hold.
Init ==
  /\ caller \in {"c", "go"}
  /\ dim_c \in 1..MaxDim
  /\ log_function \in IF caller = "go" THEN {"null"} ELSE {"null", "set"}
  /\ initial_point_c \in Vectors(dim_c)
  /\ point = initial_point_c
  /\ func_value = finit_local_zero
  /\ grad_value = [i \in 1..dim_c |-> finit_local_zero]
  /\ int_state = [iter |-> finit_local_zero, evals |-> finit_local_zero]
  /\ state = "START"
  /\ task = FAssign(K_START, task_size)
  /\ message = << >>
  /\ status_c = finit_local_zero
  /\ status_message_c = GoString(NullString(bufferSize))
  /\ min_x_c = IF caller = "go" THEN Zeros(dim_c) ELSE Ones(dim_c)
  /\ min_f_c = IF caller = "go" THEN 0 ELSE 1
  /\ min_g_c = IF caller = "go" THEN Zeros(dim_c) ELSE Ones(dim_c)
  /\ iters_c = IF caller = "go" THEN 0 ELSE 1
  /\ evals_c = IF caller = "go" THEN 0 ELSE 1
  /\ pc = "loop"
  /\ calls = NoCalls
  /\ failure = NoFailure
  /\ panicked = FALSE
  /\ trace = << >>
  /\ NoFrames
  /\ NoSparseBounds
  /\ GoZeroValue

Next == Setulb \/ Objective \/ Gradient \/ Logging

Spec == Init /\ [][Next]_vars

\* The driver where every call returns: setulb and each callback the loop
\* is waiting for eventually return (or the callback panics).
SpecFair == Spec /\ WF_vars(Next)

(***************************************************************************)
(* Lbfgsb (lbfgsb.go): the solver object, its bounds and parameters, and   *)
(* Minimize around its call of lbfgsb_minimize_c.                          *)
(***************************************************************************)
\* float64 values: the values a caller gives as bounds, and 0.0, the value
\* of the elements of a slice that make() returns.
Floats == {"NaN", "-Inf", "+Inf", "-1", "1"}
ZeroFloat == "0"

\* math.IsNaN, math.IsInf, math.Abs and negation.
IsNaN(f) == f = "NaN"
IsInf(f, sign) ==
  \/ sign >= 0 /\ f = "+Inf"
  \/ sign <= 0 /\ f = "-Inf"
Abs(f) ==
  CASE f = "-Inf" -> "+Inf"
    [] f = "-1" -> "1"
    [] OTHER -> f
Neg(f) ==
  CASE f = "-Inf" -> "+Inf"
    [] f = "+Inf" -> "-Inf"
    [] f = "-1" -> "1"
    [] f = "1" -> "-1"
    [] OTHER -> f

\* f <= 0.0 in float64: false for NaN.
FloatLeqZero(f) == f \in {"-Inf", "-1", ZeroFloat}

\* Mutant: make allocates one element too few.
make_short(n) == [i \in 1..(n - 1) |-> ZeroFloat]

\* make([]float64, n)
make(n) == [i \in 1..n |-> ZeroFloat]

\* Mutant: Init sets the dimensionality on every call.
InitDimensionality_overwrite(current, d) == d

\* Init's effect on the dimensionality: set by the first call only.
InitDimensionality(current, d) == IF current = 0 THEN d ELSE current

\* The defaults Init gives the parameters that have their zero value.
DefaultApproximationSize == 5
DefaultTolerance == "1e-6"

\* Mutant: the first call of Init does not protect a value set before.
InitParameter_unprotected(dimy, current, zero, default) ==
  IF dimy = 0 THEN default ELSE current

\* Init's effect on a parameter: the first call replaces a zero value by
\* the default.
InitParameter(dimy, current, zero, default) ==
  IF dimy = 0 /\ current = zero THEN default ELSE current

\* The body of lbfgsb.Init(d), shared by Init, SetBounds and Minimize.  On
\* a solver without dimensionality it panics on d <= 0: no step.
InitSolver_parameters_only(d) ==
  /\ dimensionality = 0 => d > 0
  /\ dimensionality' = dimensionality
  /\ approximationSize' =
       InitParameter(dimensionality, approximationSize, 0,
                     DefaultApproximationSize)
  /\ fTolerance' =
       InitParameter(dimensionality, fTolerance, ZeroFloat, DefaultTolerance)
  /\ gTolerance' =
       InitParameter(dimensionality, gTolerance, ZeroFloat, DefaultTolerance)

InitSolver(d) ==
  /\ dimensionality = 0 => d > 0
  /\ dimensionality' = InitDimensionality(dimensionality, d)
  /\ approximationSize' =
       InitParameter(dimensionality, approximationSize, 0,
                     DefaultApproximationSize)
  /\ fTolerance' =
       InitParameter(dimensionality, fTolerance, ZeroFloat, DefaultTolerance)
  /\ gTolerance' =
       InitParameter(dimensionality, gTolerance, ZeroFloat, DefaultTolerance)

\* The bounds were set: what the solver was given before is of no account.
BoundsSet ==
  /\ minimizeCall' = [minimizeCall EXCEPT !.presented = NotPresented]
  /\ UNCHANGED <<statistics, gopc, solverArgs, exitStatus>>

\* The arguments a caller gives Init.
InitArguments == (0 - 1)..MaxDim

\* lbfgsb.Init(dimensionality)
Lbfgsb_InitOf(d) ==
  /\ gopc = "idle"
  /\ InitSolver(d)
  /\ UNCHANGED <<lowerBounds, upperBounds, printControl, callVars, taskVars,
                 driverVars>>

Lbfgsb_Init == \E d \in InitArguments : Lbfgsb_InitOf(d)

\* lbfgsb.SetBounds(bounds) with bounds of the solver's dimensionality (it
\* panics on others).  It replaces every stored bound, so it is followed on
\* a solver without bounds only.
SetBoundsOf(F) ==
  /\ gopc = "idle"
  /\ lowerBounds = nil /\ upperBounds = nil
  /\ \E n \in 0..MaxDim :
       /\ InitSolver(n)
       /\ InitDimensionality(dimensionality, n) = n
       /\ \E lo \in [1..n -> F], up \in [1..n -> F] :
            /\ lowerBounds' = [i \in DOMAIN make(n) |-> lo[i]]
            /\ upperBounds' = [i \in DOMAIN make(n) |-> up[i]]
  /\ BoundsSet
  /\ UNCHANGED <<printControl, taskVars, driverVars>>

SetBounds == SetBoundsOf(Floats)

\* lbfgsb.SetBoundsAll(lower, upper) on an initialized solver (it panics on
\* another one).
SetBoundsAllOf(F) ==
  /\ gopc = "idle"
  /\ dimensionality # 0
  /\ \E lower \in F, upper \in F :
       /\ lowerBounds' = [i \in DOMAIN make(dimensionality) |-> lower]
       /\ upperBounds' = [i \in DOMAIN make(dimensionality) |-> upper]
  /\ BoundsSet
  /\ UNCHANGED <<dimensionality, paramVars, taskVars, driverVars>>

\* One interval for all dimensions, of NaN, an infinity and a number.
SetBoundsAll == SetBoundsAllOf({"NaN", "-Inf", "1"})

\* lbfgsb.ClearBounds()
ClearBounds ==
  /\ gopc = "idle"
  /\ lowerBounds' = nil
  /\ upperBounds' = nil
  /\ BoundsSet
  /\ UNCHANGED <<dimensionality, paramVars, taskVars, driverVars>>

\* The intervals of a sparse bounds map: nil or empty, one value, two.
SparseIntervals(F) ==
  { << >> } \cup { <<x>> : x \in F }
    \cup { <<l, u>> : l \in F, u \in F }

\* Intervals of more than two values.
LongIntervals(F, More) == { <<l, u, x>> : l \in F, u \in F, x \in More }

\* The maps of dimension indexes (from zero) to intervals, for a solver of
\* n dimensions: each index of 0..n-1, and the indexes -1 and n that are
\* no dimension, has an entry or <<"missing">> for none.  Entries of
\* 0..n-1 are intervals of F, or of two values of F and one of More;
\* entries of -1 and n are of Outside.
SparseMaps(n, F, More, Outside) ==
  { [ k \in (0 - 1)..n |->
        IF k \in 0..(n - 1) THEN inside[k] ELSE outside[k] ] :
      inside \in
        [ 0..(n - 1) ->
            SparseIntervals(F) \cup LongIntervals(F, More)
              \cup { <<"missing">> } ],
      outside \in [ {0 - 1, n} -> Outside \cup { <<"missing">> } ] }

\* The bounds SetBoundsSparse stores for a dimension: [-Inf, +Inf] without
\* an entry or with an empty one, [-|x|, |x|] for [x], [l, u] for [l, u].
sparse_lower(entry) ==
  IF entry = <<"missing">> \/ Len(entry) = 0 THEN "-Inf"
  ELSE IF Len(entry) = 1 THEN Neg(Abs(entry[1]))
  ELSE entry[1]

sparse_upper_signed(entry) ==
  IF entry = <<"missing">> \/ Len(entry) = 0 THEN "+Inf"
  ELSE IF Len(entry) = 1 THEN entry[1]
  ELSE entry[2]

sparse_upper(entry) ==
  IF entry = <<"missing">> \/ Len(entry) = 0 THEN "+Inf"
  ELSE IF Len(entry) = 1 THEN Abs(entry[1])
  ELSE entry[2]

\* lbfgsb.SetBoundsSparse(sparseBounds) panics on a solver that is not
\* initialized.  Like SetBounds it replaces every stored bound and is
\* followed on a solver without bounds only.
SetBoundsSparseCalled ==
  /\ gopc = "idle"
  /\ dimensionality # 0
  /\ lowerBounds = nil /\ upperBounds = nil

\* What SetBoundsSparse does with the map `bounds`.  A map without entries
\* clears the bounds.
SetBoundsSparseWith(bounds) ==
  /\ IF \A k \in DOMAIN bounds : bounds[k] = <<"missing">>
     THEN /\ lowerBounds' = nil
          /\ upperBounds' = nil
     ELSE /\ lowerBounds' =
               [i \in DOMAIN make(dimensionality) |->
                  sparse_lower(bounds[i - 1])]
          /\ upperBounds' =
               [i \in DOMAIN make(dimensionality) |->
                  sparse_upper(bounds[i - 1])]
  /\ BoundsSet
  /\ UNCHANGED <<dimensionality, paramVars, taskVars, driverVars>>

SetBoundsSparseOf(F) ==
  /\ SetBoundsSparseCalled
  /\ \E bounds \in
         [0..(dimensionality - 1) ->
            SparseIntervals(F) \cup { <<"missing">> }] :
       SetBoundsSparseWith(bounds)

\* Maps with entries of one value and of two: a negative number and NaN.
SetBoundsSparse == SetBoundsSparseOf({"-1", "NaN"})

\* The parameter setters, each called with a value it accepts and one it
\* rejects.
\* lbfgsb.SetApproximationSize(size): panics on size <= 0.
SetApproximationSize ==
  /\ gopc = "idle"
  /\ \E size \in {0, 3} :
       /\ ~(size <= 0)
       /\ approximationSize' = size
  /\ UNCHANGED <<dimensionality, lowerBounds, upperBounds, fTolerance,
                 gTolerance, printControl, callVars, taskVars, driverVars>>

\* lbfgsb.SetFTolerance(fTolerance): panics on fTolerance <= 0.0.
SetFTolerance ==
  /\ gopc = "idle"
  /\ \E tolerance \in {ZeroFloat, "1"} :
       /\ ~FloatLeqZero(tolerance)
       /\ fTolerance' = tolerance
  /\ UNCHANGED <<dimensionality, lowerBounds, upperBounds, approximationSize,
                 gTolerance, printControl, callVars, taskVars, driverVars>>

\* lbfgsb.SetGTolerance(gTolerance): panics on gTolerance <= 0.0.
SetGTolerance ==
  /\ gopc = "idle"
  /\ \E tolerance \in {ZeroFloat, "1"} :
       /\ ~FloatLeqZero(tolerance)
       /\ gTolerance' = tolerance
  /\ UNCHANGED <<dimensionality, lowerBounds, upperBounds, approximationSize,
                 fTolerance, printControl, callVars, taskVars, driverVars>>

\* lbfgsb.SetFortranPrintControl(verbosity): panics on verbosity < 0.
SetFortranPrintControl ==
  /\ gopc = "idle"
  /\ \E verbosity \in {0 - 1, 1} :
       /\ ~(verbosity < 0)
       /\ printControl' = verbosity
  /\ UNCHANGED <<dimensionality, lowerBounds, upperBounds, approximationSize,
                 fTolerance, gTolerance, callVars, taskVars, driverVars>>

\* The bounds control Minimize sets up: 1 for a lower bound that is neither
\* NaN nor -Inf, then 3 - that for an upper bound that is neither NaN nor
\* -Inf.
boundsControl(lower, upper, dim) ==
  [ idx \in 1..dim |->
      LET lowerControl ==
            IF lower # nil /\ ~IsNaN(lower[idx]) /\ ~IsInf(lower[idx], -1)
            THEN 1 ELSE 0
      IN IF upper # nil /\ ~IsNaN(upper[idx]) /\ ~IsInf(upper[idx], -1)
         THEN 3 - lowerControl
         ELSE lowerControl ]

\* Mutant: the copy replaces NaN and infinite values by 0.
makeCCopySlice_Float_finite(slice, sliceLen) ==
  [ i \in 1..sliceLen |->
      IF slice = nil \/ IsNaN(slice[i]) \/ IsInf(slice[i], 0)
      THEN ZeroFloat ELSE slice[i] ]

\* makeCCopySlice_Float: a new slice of the given length, holding the
\* elements of the Go slice unless that is nil.
makeCCopySlice_Float(slice, sliceLen) ==
  IF slice # nil THEN [i \in 1..sliceLen |-> slice[i]] ELSE make(sliceLen)

\* A value of the parameters map (an interface{}): its dynamic type and its
\* value, or Absent for a key the map does not hold.
Absent == [type |-> "absent", int |-> 0, float |-> ZeroFloat]
IntValue(i) == [type |-> "int", int |-> i, float |-> ZeroFloat]
FloatValue(f) == [type |-> "float64", int |-> 0, float |-> f]

\* The keys Minimize looks up, and one it does not.
ParameterKeys ==
  {"approximationSize", "fTolerance", "gTolerance", "printControl",
   "maxIterations"}

\* parameters = nil, or a map without entries.
NoParameters == [k \in ParameterKeys |-> Absent]

\* The parameters maps a caller passes: per key no entry, an accepted
\* value, a value out of range, a value of another type.
AllParameterMaps ==
  { [approximationSize |-> a, fTolerance |-> f, gTolerance |-> g,
     printControl |-> p, maxIterations |-> m] :
      a \in {Absent, IntValue(3), IntValue(0), FloatValue("1")},
      f \in {Absent, FloatValue("1"), FloatValue(ZeroFloat),
             FloatValue("-1"), IntValue(3)},
      g \in {Absent, FloatValue("1"), FloatValue(ZeroFloat),
             FloatValue("-1"), IntValue(3)},
      p \in {Absent, IntValue(0), IntValue(0 - 1), FloatValue("1")},
      m \in {Absent, IntValue(3)} }

\* Those with at most MaxEntries entries for the keys Minimize looks up.
ParameterMaps ==
  { m \in AllParameterMaps :
      Cardinality({ k \in ParameterKeys \ {"maxIterations"} :
                      m[k] # Absent }) <= MaxEntries }

\* paramVal.(int) and paramVal.(float64) in their two-value form: the zero
\* value and false for another dynamic type.
assert_int(paramVal) ==
  [ value |-> IF paramVal.type = "int" THEN paramVal.int ELSE 0,
    ok |-> paramVal.type = "int" ]
assert_float64(paramVal) ==
  [ value |-> IF paramVal.type = "float64" THEN paramVal.float ELSE ZeroFloat,
    ok |-> paramVal.type = "float64" ]

\* Mutant: an approximation size of 0 is accepted.
approximationSize_parameter_zero_ok(parameters, current) ==
  IF parameters.approximationSize # Absent
  THEN LET a == assert_int(parameters.approximationSize)
       IN [value |-> a.value, bad |-> ~a.ok \/ a.value < 0]
  ELSE [value |-> current, bad |-> FALSE]

\* Minimize's processing of each parameter: the solver's value unless the
\* map has an entry, which is bad if it has another type or is out of range.
approximationSize_parameter(parameters, current) ==
  IF parameters.approximationSize # Absent
  THEN LET a == assert_int(parameters.approximationSize)
       IN [value |-> a.value, bad |-> ~a.ok \/ a.value <= 0]
  ELSE [value |-> current, bad |-> FALSE]

fTolerance_parameter(parameters, current) ==
  IF parameters.fTolerance # Absent
  THEN LET f == assert_float64(parameters.fTolerance)
       IN [value |-> f.value, bad |-> ~f.ok \/ FloatLeqZero(f.value)]
  ELSE [value |-> current, bad |-> FALSE]

gTolerance_parameter(parameters, current) ==
  IF parameters.gTolerance # Absent
  THEN LET g == assert_float64(parameters.gTolerance)
       IN [value |-> g.value, bad |-> ~g.ok \/ FloatLeqZero(g.value)]
  ELSE [value |-> current, bad |-> FALSE]

printControl_parameter(parameters, current) ==
  IF parameters.printControl # Absent
  THEN LET p == assert_int(parameters.printControl)
       IN [value |-> p.value, bad |-> ~p.ok \/ p.value < 0]
  ELSE [value |-> current, bad |-> FALSE]

\* The first parameter Minimize rejects, in the order it processes them.
bad_parameter(aS, fT, gT, pC) ==
  IF aS.bad THEN "approximationSize"
  ELSE IF fT.bad THEN "fTolerance"
  ELSE IF gT.bad THEN "gTolerance"
  ELSE IF pC.bad THEN "printControl"
  ELSE "none"

\* Mutant: Minimize's dimensionality check never fails.
dimensionality_mismatch_never(dimy, dim) == FALSE

\* Minimize's dimensionality check.
dimensionality_mismatch(dimy, dim) == dimy # dim

\* The exit status of an early return of Minimize; Message names the
\* parameter the text is about.
UsageError(about) == [Code |-> USAGE_ERROR, Message |-> about]

\* Mutant: the gradient evaluations are not saved.
save_statistics_no_gradient(iters_c_, evals_c_) ==
  [Iterations |-> iters_c_, FunctionEvaluations |-> evals_c_,
   GradientEvaluations |-> 0]

\* The statistics Minimize saves after the call of lbfgsb_minimize_c.
save_statistics(iters_c_, evals_c_) ==
  [Iterations |-> iters_c_, FunctionEvaluations |-> evals_c_,
   GradientEvaluations |-> evals_c_]

\* lbfgsb.Minimize up to its call of lbfgsb_minimize_c, for an initial
\* point of n coordinates: Init(n), the dimensionality check and the
\* parameters (both return USAGE_ERROR at once), bounds control and copies
\* of the bounds.
MinimizeOf(Points, Maps) ==
  /\ gopc = "idle"
  /\ \E n \in Points, parameters \in Maps :
       /\ InitSolver(n)
       /\ LET aS == approximationSize_parameter(parameters, approximationSize')
              fT == fTolerance_parameter(parameters, fTolerance')
              gT == gTolerance_parameter(parameters, gTolerance')
              pC == printControl_parameter(parameters, printControl)
              early == [made |-> TRUE, initialPoint |-> n,
                        presented |-> minimizeCall.presented,
                        parameters |-> parameters, solver |-> FALSE]
              bounds_c ==
                [ bounds_control |->
                    boundsControl(lowerBounds, upperBounds, n),
                  lower_bounds |-> makeCCopySlice_Float(lowerBounds, n),
                  upper_bounds |-> makeCCopySlice_Float(upperBounds, n) ]
          IN IF dimensionality_mismatch(dimensionality', n)
             THEN /\ exitStatus' = UsageError("dimensionality")
                  /\ minimizeCall' = early
                  /\ UNCHANGED <<gopc, solverArgs>>
             ELSE IF bad_parameter(aS, fT, gT, pC) # "none"
             THEN /\ exitStatus' = UsageError(bad_parameter(aS, fT, gT, pC))
                  /\ minimizeCall' = early
                  /\ UNCHANGED <<gopc, solverArgs>>
             ELSE /\ exitStatus' = NoExitStatus
                  /\ minimizeCall' = [early EXCEPT !.solver = TRUE,
                                                   !.presented = bounds_c]
                  /\ gopc' = "solver"
                  /\ solverArgs' =
                       [ dim |-> n,
                         bounds_control |-> bounds_c.bounds_control,
                         lower_bounds |-> bounds_c.lower_bounds,
                         upper_bounds |-> bounds_c.upper_bounds,
                         approximation_size |-> aS.value,
                         f_tolerance |-> fT.value,
                         g_tolerance |-> gT.value,
                         print_control |-> pC.value ]
  /\ UNCHANGED <<lowerBounds, upperBounds, printControl, statistics,
                 taskVars, driverVars>>

Minimize == MinimizeOf(1..MaxDim, {NoParameters})

\* What lbfgsb_minimize_c returns: its status code and the counts of
\* iterations and evaluations, of which each solver call of the run has
\* advanced one.
SolverOutcomes ==
  { outcome \in
      StatusCodes \X (0..MaxSolverCalls) \X (0..MaxSolverCalls) :
        outcome[2] + outcome[3] <= MaxSolverCalls }

\* lbfgsb_minimize_c returns and Minimize with it: exit status and
\* statistics are converted and saved.
MinimizeReturnsOf(Outcomes) ==
  /\ gopc = "solver"
  /\ gopc' = "idle"
  /\ solverArgs' = NoSolverArgs
  /\ \E outcome \in Outcomes :
       /\ exitStatus' = [Code |-> ExitStatusCode(outcome[1]),
                         Message |-> "statusMessage_c"]
       /\ statistics' = save_statistics(outcome[2], outcome[3])
  /\ UNCHANGED <<dimensionality, lowerBounds, upperBounds, paramVars,
                 minimizeCall, taskVars, driverVars>>

MinimizeReturns ==
  MinimizeReturnsOf({<<LBFGSB_STATUS_SUCCESS, 1, 1>>})

GoIdle ==
  /\ GoZeroValue
  /\ DriverIdle
  /\ task = << >>
  /\ state = "START"
  /\ message = << >>
  /\ pc = "idle"

InitGo ==
  /\ GoIdle
  /\ NoFrames
  /\ NoSparseBounds

\* The solver object and its bounds.
NextGo ==
  \/ Lbfgsb_Init
  \/ SetBounds
  \/ SetBoundsAll
  \/ SetBoundsSparse
  \/ ClearBounds
  \/ Minimize
  \/ MinimizeReturns

SpecGo == InitGo /\ [][NextGo]_vars

\* The solver object over calls of Minimize: bounds of one value, every
\* parameter setter, initial points of every length, every outcome of the
\* solver.
NextGoRun ==
  \/ Lbfgsb_Init
  \/ SetBoundsOf({"1"})
  \/ SetBoundsAllOf({"1"})
  \/ SetBoundsSparseOf({"1"})
  \/ ClearBounds
  \/ SetApproximationSize
  \/ SetFTolerance
  \/ SetGTolerance
  \/ SetFortranPrintControl
  \/ MinimizeOf(0..MaxDim, {NoParameters})
  \/ MinimizeReturnsOf(SolverOutcomes)

SpecGoRun == InitGo /\ [][NextGoRun]_vars

\* Sparse bounds: maps with entries of every kind, also for indexes that
\* are no dimension of the solver.
InitGoSparse ==
  /\ GoIdle
  /\ NoFrames
  /\ sparseBounds \in
       SparseMaps(MaxDim, {"NaN", "-1"}, {"1"}, { <<"1">> })
  /\ asError = NoAsError

\* The caller gives SetBoundsSparse the map.
SetBoundsSparseGiven ==
  /\ SetBoundsSparseCalled
  /\ SetBoundsSparseWith(sparseBounds)

NextGoSparse ==
  \/ Lbfgsb_Init
  \/ SetBoundsSparseGiven
  \/ ClearBounds

SpecGoSparse == InitGoSparse /\ [][NextGoSparse]_vars

\* Minimize from a point of MaxDim coordinates with every parameters map,
\* on a solver with default parameters.
NextGoParameters ==
  \/ Lbfgsb_Init
  \/ MinimizeOf({MaxDim}, ParameterMaps)
  \/ MinimizeReturns

SpecGoParameters == InitGo /\ [][NextGoParameters]_vars

\* Parameters maps that override the stored parameters.
Overrides ==
  { NoParameters,
    [NoParameters EXCEPT !.approximationSize = IntValue(3),
                         !.fTolerance = FloatValue("1")],
    [NoParameters EXCEPT !.gTolerance = FloatValue("+Inf"),
                         !.printControl = IntValue(2)] }

\* Successive calls of Minimize with overriding parameters, on a solver
\* whose bounds and parameters are set between them.
NextGoFrame ==
  \/ Lbfgsb_Init
  \/ SetBoundsAllOf({"NaN", "1"})
  \/ ClearBounds
  \/ SetApproximationSize
  \/ SetFTolerance
  \/ SetGTolerance
  \/ SetFortranPrintControl
  \/ MinimizeOf(1..MaxDim, Overrides)
  \/ MinimizeReturns

SpecGoFrame == InitGo /\ [][NextGoFrame]_vars

(***************************************************************************)
(* SpecGoCalls: every method of the solver object called with arguments    *)
(* it accepts and arguments it rejects, the panic being an outcome of the  *)
(* call.  Nothing recovers the panic: no call follows it.                  *)
(***************************************************************************)
\* panic(fmt.Errorf(...)) as the first effect of a method.
Panic ==
  /\ gopc' = "panicked"
  /\ UNCHANGED <<dimensionality, lowerBounds, upperBounds, paramVars,
                 statistics, solverArgs, exitStatus, minimizeCall, taskVars,
                 driverVars>>

\* lbfgsb.Init(dimensionality) with every argument.
InitCall ==
  /\ gopc = "idle"
  /\ \E d \in InitArguments :
       IF dimensionality = 0 /\ d <= 0 THEN Panic ELSE Lbfgsb_InitOf(d)

\* lbfgsb.SetBounds(bounds) with bounds of every length: Init(len(bounds)),
\* then the check of the dimensionality, then the assignments.
SetBoundsCall ==
  /\ gopc = "idle"
  /\ \E n \in 0..MaxDim :
       IF dimensionality = 0 /\ n <= 0
       THEN Panic
       ELSE /\ InitSolver(n)
            /\ IF dimensionality' # n
               THEN /\ gopc' = "panicked"
                    /\ UNCHANGED <<lowerBounds, upperBounds, statistics,
                                   solverArgs, exitStatus, minimizeCall>>
               ELSE /\ lowerBounds' = [i \in DOMAIN make(n) |-> "-1"]
                    /\ upperBounds' = [i \in DOMAIN make(n) |-> "1"]
                    /\ BoundsSet
            /\ UNCHANGED <<printControl, taskVars, driverVars>>

\* lbfgsb.SetBoundsAll(lower, upper) on every solver.
SetBoundsAllCall ==
  /\ gopc = "idle"
  /\ IF dimensionality = 0 THEN Panic ELSE SetBoundsAllOf({"1"})

\* lbfgsb.SetBoundsSparse(sparseBounds) on every solver, with an empty map
\* and with a map of one interval for every dimension.
SetBoundsSparseCall ==
  /\ gopc = "idle"
  /\ IF dimensionality = 0
     THEN Panic
     ELSE \E interval \in { <<"missing">>, <<"1">> } :
            SetBoundsSparseWith([i \in 0..(dimensionality - 1) |-> interval])

\* Mutant: SetApproximationSize assigns before it checks.
SetApproximationSizeCall_assign_first ==
  /\ gopc = "idle"
  /\ \E size \in {0 - 1, 0, 3} :
       /\ approximationSize' = size
       /\ gopc' = IF size <= 0 THEN "panicked" ELSE gopc
  /\ UNCHANGED <<dimensionality, lowerBounds, upperBounds, fTolerance,
                 gTolerance, printControl, statistics, solverArgs,
                 exitStatus, minimizeCall, taskVars, driverVars>>

\* lbfgsb.SetApproximationSize(size) with every kind of size.
SetApproximationSizeCall ==
  /\ gopc = "idle"
  /\ \E size \in {0 - 1, 0, 3} :
       IF size <= 0
       THEN Panic
       ELSE /\ approximationSize' = size
            /\ UNCHANGED <<dimensionality, lowerBounds, upperBounds,
                           fTolerance, gTolerance, printControl, callVars,
                           taskVars, driverVars>>

\* The tolerances a caller may pass: zero, a negative and a positive
\* number, and NaN.
Tolerances == {ZeroFloat, "-1", "1", "NaN"}

\* lbfgsb.SetFTolerance(fTolerance) with every kind of tolerance.
SetFToleranceCall ==
  /\ gopc = "idle"
  /\ \E tolerance \in Tolerances :
       IF FloatLeqZero(tolerance)
       THEN Panic
       ELSE /\ fTolerance' = tolerance
            /\ UNCHANGED <<dimensionality, lowerBounds, upperBounds,
                           approximationSize, gTolerance, printControl,
                           callVars, taskVars, driverVars>>

\* lbfgsb.SetGTolerance(gTolerance) with a tolerance it rejects and one it
\* accepts.
SetGToleranceCall ==
  /\ gopc = "idle"
  /\ \E tolerance \in {ZeroFloat, "1"} :
       IF FloatLeqZero(tolerance)
       THEN Panic
       ELSE /\ gTolerance' = tolerance
            /\ UNCHANGED <<dimensionality, lowerBounds, upperBounds,
                           approximationSize, fTolerance, printControl,
                           callVars, taskVars, driverVars>>

\* lbfgsb.SetFortranPrintControl(verbosity) with a verbosity it rejects
\* and one it accepts.
SetFortranPrintControlCall ==
  /\ gopc = "idle"
  /\ \E verbosity \in {0 - 1, 1} :
       IF verbosity < 0
       THEN Panic
       ELSE /\ printControl' = verbosity
            /\ UNCHANGED <<dimensionality, lowerBounds, upperBounds,
                           approximationSize, fTolerance, gTolerance,
                           callVars, taskVars, driverVars>>

\* Parameters maps that override a tolerance: by NaN and by a negative
\* number.
ToleranceOverrides ==
  { NoParameters,
    [NoParameters EXCEPT !.fTolerance = FloatValue("NaN")],
    [NoParameters EXCEPT !.fTolerance = FloatValue("-1")] }

NextGoCalls ==
  \/ InitCall
  \/ SetBoundsCall
  \/ SetBoundsAllCall
  \/ SetBoundsSparseCall
  \/ SetApproximationSizeCall
  \/ SetFToleranceCall
  \/ SetGToleranceCall
  \/ SetFortranPrintControlCall
  \/ MinimizeOf(0..MaxDim, ToleranceOverrides)
  \/ MinimizeReturns

SpecGoCalls == InitGo /\ [][NextGoCalls]_vars

(***************************************************************************)
(* SpecGoEarlier: the earlier variant of Minimize (unnamed/part_000), on   *)
(* a solver object without dimensionality whose bounds the package fills   *)
(* in, of any length.                                                      *)
(***************************************************************************)
\* The bounds of the earlier Lbfgsb object: nil, or slices of 1..MaxDim
\* numbers and NaNs.
EarlierBounds ==
  {nil} \cup UNION { [1..n -> {"1", "NaN"}] : n \in 1..MaxDim }

\* The exit status after the check that 'everyone agrees on the
\* dimensionality': the code and message are assigned, the call goes on.
dimensionality_disagreement(lower, upper, dim) ==
  IF \/ lower # nil /\ Len(lower) # dim
     \/ upper # nil /\ Len(upper) # dim
  THEN UsageError("dimensionality")
  ELSE NoExitStatus

\* for index, bound := range bounds { ... bounds_control[index] ... } with
\* bounds_control of dim elements: the index is out of range for a bound
\* beyond dim that is neither NaN nor -Inf.
bounds_control_out_of_range(bounds, dim) ==
  \E idx \in DOMAIN bounds :
    /\ idx > dim
    /\ ~IsNaN(bounds[idx])
    /\ ~IsInf(bounds[idx], 0 - 1)

\* bounds_control := make([]int32, dim) and the two loops over the
\* bounds, when no index is out of range.
bounds_control(lower, upper, dim) ==
  [ idx \in 1..dim |->
      LET lowerControl ==
            IF /\ idx \in DOMAIN lower
               /\ ~IsNaN(lower[idx])
               /\ ~IsInf(lower[idx], 0 - 1)
            THEN 1 ELSE 0
      IN IF /\ idx \in DOMAIN upper
            /\ ~IsNaN(upper[idx])
            /\ ~IsInf(upper[idx], 0 - 1)
         THEN 3 - lowerControl
         ELSE lowerControl ]

\* The earlier Minimize up to its call of lbfgsb_minimize_c, for an initial
\* point of n coordinates.  It panics at an index out of range, which
\* &lbfgsb.lower_bounds[0] is for nil bounds.
EarlierMinimize ==
  /\ gopc = "idle"
  /\ \E n \in 1..MaxDim :
       /\ minimizeCall' = [NoMinimizeCall EXCEPT !.made = TRUE,
                                                 !.initialPoint = n]
       /\ exitStatus' = dimensionality_disagreement(lowerBounds, upperBounds, n)
       /\ IF \/ bounds_control_out_of_range(lowerBounds, n)
             \/ bounds_control_out_of_range(upperBounds, n)
             \/ lowerBounds = nil
             \/ upperBounds = nil
          THEN /\ gopc' = "panicked"
               /\ solverArgs' = solverArgs
          ELSE /\ gopc' = "solver"
               /\ solverArgs' =
                    [ dim |-> n,
                      bounds_control |->
                        bounds_control(lowerBounds, upperBounds, n),
                      lower_bounds |-> lowerBounds,
                      upper_bounds |-> upperBounds,
                      approximation_size |-> approximationSize,
                      f_tolerance |-> fTolerance,
                      g_tolerance |-> gTolerance,
                      print_control |-> printControl ]
  /\ UNCHANGED <<dimensionality, lowerBounds, upperBounds, paramVars,
                 statistics, taskVars, driverVars>>

\* lbfgsb_minimize_c returns and the earlier Minimize with it: the exit
\* status is the one of the solver.
EarlierMinimizeReturns ==
  /\ gopc = "solver"
  /\ gopc' = "idle"
  /\ solverArgs' = NoSolverArgs
  /\ \E status \in StatusCodes :
       exitStatus' = [Code |-> ExitStatusCode(status),
                      Message |-> "statusMessage_c"]
  /\ UNCHANGED <<dimensionality, lowerBounds, upperBounds, paramVars,
                 statistics, minimizeCall, taskVars, driverVars>>

InitGoEarlier ==
  /\ lowerBounds \in EarlierBounds
  /\ upperBounds \in EarlierBounds
  /\ dimensionality = 0
  /\ approximationSize = 0
  /\ fTolerance = ZeroFloat
  /\ gTolerance = ZeroFloat
  /\ printControl = 0
  /\ statistics = ZeroStatistics
  /\ gopc = "idle"
  /\ solverArgs = NoSolverArgs
  /\ exitStatus = NoExitStatus
  /\ minimizeCall = NoMinimizeCall
  /\ DriverIdle
  /\ task = << >>
  /\ state = "START"
  /\ message = << >>
  /\ pc = "idle"
  /\ NoFrames
  /\ NoSparseBounds

NextGoEarlier == EarlierMinimize \/ EarlierMinimizeReturns

SpecGoEarlier == InitGoEarlier /\ [][NextGoEarlier]_vars

(***************************************************************************)
(* SpecConvert: convert_f_c_string applied to Fortran strings and C        *)
(* buffers of every size, the empty buffer included.                       *)
(***************************************************************************)
\* A C buffer of the given size as the caller allocates it.
Buffer(size) == [i \in 1..size |-> "?"]

\* The positions of string_c that convert_f_c_string assigns: 1..length by
\* the forall, length+1..size(string_c) by the array section.
string_c_written(string_f, size) ==
  Apply(Min(len_trim(string_f), size - 1), LAMBDA length :
    (1..length) \cup ((length + 1)..size))

InitConvert ==
  /\ message \in StringsUpTo(MaxTokLen)
  /\ status_message_c \in { Buffer(size) : size \in 0..(MaxTokLen + 1) }
  /\ accessed = {}
  /\ frames = << >>
  /\ pc = "convert"
  /\ task = << >>
  /\ state = "START"
  /\ caller = "c" /\ dim_c = 1 /\ log_function = "null"
  /\ initial_point_c = Zeros(1)
  /\ point = Zeros(1) /\ func_value = 0 /\ grad_value = Zeros(1)
  /\ int_state = [iter |-> 0, evals |-> 0]
  /\ status_c = finit_local_zero
  /\ min_x_c = Zeros(1) /\ min_f_c = 0 /\ min_g_c = Zeros(1)
  /\ iters_c = 0 /\ evals_c = 0
  /\ calls = NoCalls /\ failure = NoFailure /\ panicked = FALSE
  /\ trace = << >>
  /\ NoSparseBounds
  /\ GoZeroValue

\* call convert_f_c_string(message, status_message_c): the characters the
\* buffer holds afterwards and the positions assigned.
ConvertString ==
  /\ pc = "convert"
  /\ pc' = "converted"
  /\ accessed' = string_c_written(message, Len(status_message_c))
  /\ status_message_c' =
       [ i \in DOMAIN status_message_c |->
           convert_f_c_string(message, Len(status_message_c))[i] ]
  /\ UNCHANGED <<task, state, message, caller, dim_c, log_function,
                 initial_point_c, frames, sparseBounds, asError, localVars,
                 min_x_c, min_f_c, min_g_c, iters_c, evals_c, status_c,
                 historyVars, goVars>>

NextConvert == ConvertString

SpecConvert == InitConvert /\ [][NextConvert]_vars

(***************************************************************************)
(* Claims about interpret_task, checked under SpecInterp.                  *)
(***************************************************************************)
DriverStates ==
  { "START", "EVAL_FG", "NEW_X", "CONVERGENCE", "ABNORMAL", "WARNING",
    "ERROR_USAGE", "ERROR_INTERNAL" }

HasColon(t) == \E i \in 1..Len(t) : t[i] = ":"
FirstColon(t) == CHOOSE i \in 1..Len(t) : t[i] = ":" /\ ~HasColon(SubSeq(t, 1, i - 1))
\* The keyword of a token: the text before its first colon, or the whole
\* token; trailing blanks do not count (Fortran compares blank padded).
Keyword(t) ==
  LET text == IF HasColon(t) THEN SubSeq(t, 1, FirstColon(t) - 1) ELSE t
  IN SubSeq(text, 1, len_trim(text))

KnownKeywords ==
  { K_START, K_FG, K_FG_LNSRCH, K_FG_START, K_NEW_X, K_CONVERGENCE,
    K_ABNORMAL, K_WARNING, K_ERROR }

DocumentedState(k) ==
  IF k = K_START THEN "START"
  ELSE IF k \in {K_FG, K_FG_LNSRCH, K_FG_START} THEN "EVAL_FG"
  ELSE IF k = K_NEW_X THEN "NEW_X"
  ELSE IF k = K_CONVERGENCE THEN "CONVERGENCE"
  ELSE IF k = K_ABNORMAL THEN "ABNORMAL"
  ELSE IF k = K_WARNING THEN "WARNING"
  ELSE IF k = K_ERROR THEN "ERROR_USAGE"
  ELSE "ERROR_INTERNAL"

\* C1: interpret_task gives every task token one of the eight states, the
\* one documented for the token's keyword.
C1_InterpretTaskTotal ==
  pc = "interpreted" =>
    /\ state \in DriverStates
    /\ Keyword(task) \in KnownKeywords => state = DocumentedState(Keyword(task))

C1_Witness ==
  /\ pc = "interpreted"
  /\ task = T_FG_LNSRCH
  /\ state = "EVAL_FG"

\* 'K: d' with a detail d after the keyword K, a colon and one blank.
IsDetailForm(t, k) ==
  /\ Len(t) >= Len(k) + 3
  /\ SubSeq(t, 1, Len(k)) = k
  /\ t[Len(k) + 1] = ":"
  /\ t[Len(k) + 2] = Blank
Detail(t, k) == SubSeq(t, Len(k) + 3, Len(t))

\* C3: the message is the detail alone for 'CONVERGENCE: d', 'WARNING: d'
\* and 'ERROR: d', the full token for ABNORMAL_TERMINATION_IN_LNSRCH, and
\* empty for START, FG, FG_LNSRCH, FG_START and NEW_X.
C3_MessageIsDetail ==
  pc = "interpreted" =>
    /\ \A k \in {K_CONVERGENCE, K_WARNING, K_ERROR} :
         IsDetailForm(task, k) => message = Detail(task, k)
    /\ Keyword(task) = K_ABNORMAL => message = task
    /\ Keyword(task) \in {K_START, K_FG, K_FG_LNSRCH, K_FG_START, K_NEW_X}
         => message = << >>

C3_Witness ==
  /\ pc = "interpreted"
  /\ task = T_CONV_PGTOL
  /\ message =
       <<"N","O","R","M","_","O","F","_","P","R","O","J","E","C","T","E","D",
         "_","G","R","A","D","I","E","N","T","_","<","=","_","P","G","T","O",
         "L">>

(***************************************************************************)
(* Claims about the driver loop, checked under Spec.                       *)
(***************************************************************************)
\* The string m contains the string t.
Contains(m, t) ==
  \E i \in 0..(Len(m) - Len(t)) : SubSeq(m, i + 1, i + Len(t)) = t

C5_NoCallAfterFailure ==
  /\ [](failure.by = "func" => calls.grad = calls.func - 1)
  /\ [](failure.by = "grad" => calls.grad = calls.func)
  /\ [][failure.by \in {"func", "grad"} => calls' = calls]_vars

C5_Witness ==
  /\ pc = "done"
  /\ failure.by = "func"
  /\ calls.func = 2
  /\ calls.grad = 1

\* C6: a run that ended because the objective, gradient or logging callback
\* failed returns X, F and G all zero.
C6_FailureZeroesResult ==
  (pc = "done" /\ failure.by # "none") =>
    /\ min_x_c = Zeros(dim_c)
    /\ min_f_c = 0
    /\ min_g_c = Zeros(dim_c)

C6_Witness ==
  /\ pc = "done"
  /\ caller = "c"
  /\ dim_c = MaxDim
  /\ failure.by = "grad"
  /\ calls.func = 2
  /\ point = Ones(dim_c)
  /\ func_value = 1
  /\ min_x_c = Zeros(dim_c)
  /\ min_f_c = 0
  /\ min_g_c = Zeros(dim_c)

\* C7 as stated: a run whose objective or gradient callback failed ends with
\* status FAILURE.
C7_FailureStatusIsFailure ==
  (pc = "done" /\ failure.by \in {"func", "grad"}) =>
    status_c = LBFGSB_STATUS_FAILURE

\* C7 amended: a run whose objective or gradient callback failed ends with
\* the status code that callback returned, which is not SUCCESS; it is
\* FAILURE when the callback returned FAILURE.
C7_FailureStatusIsCallbackStatus ==
  (failure.by \in {"func", "grad"}) =>
    /\ pc = "done"
    /\ failure.code # LBFGSB_STATUS_SUCCESS
    /\ status_c = failure.code

C7_Witness ==
  /\ pc = "done"
  /\ failure = [by |-> "func", code |-> LBFGSB_STATUS_USAGE_ERROR]
  /\ status_c = LBFGSB_STATUS_USAGE_ERROR

\* C8: a panic of the caller's objective or gradient function is turned by
\* the adapter into a status other than SUCCESS returned to the driver; it
\* never unwinds through the driver loop.
C8_PanicCaughtAtAdapter ==
  /\ pc # "unwound"
  /\ panicked => status_c # LBFGSB_STATUS_SUCCESS

(***************************************************************************)
(* Claims about the bounds encoding, checked under SpecGo.                 *)
(***************************************************************************)
\* A stored bound that is a finite number.
IsFiniteBound(bounds, i) ==
  bounds # nil /\ bounds[i] \notin {"NaN", "-Inf", "+Inf"}

\* The control code documented for a dimension.
DocumentedControl(i) ==
  CASE IsFiniteBound(lowerBounds, i) /\ IsFiniteBound(upperBounds, i) -> 2
    [] IsFiniteBound(lowerBounds, i) /\ ~IsFiniteBound(upperBounds, i) -> 1
    [] ~IsFiniteBound(lowerBounds, i) /\ IsFiniteBound(upperBounds, i) -> 3
    [] OTHER -> 0

\* C9: the bounds control code Minimize passes for a dimension is 0 when
\* neither bound is finite, 1 when only the lower is, 2 when both are, 3
\* when only the upper is; an upper bound of +Inf counts as absent.
C9_BoundsControlCode ==
  gopc = "solver" =>
    \A i \in 1..solverArgs.dim :
      solverArgs.bounds_control[i] = DocumentedControl(i)

\* C10 as stated: the bound vectors passed have length n and hold finite
\* values only, 0 in every slot whose bound is absent.
C10_BoundVectorsFinite ==
  gopc = "solver" =>
    /\ Len(solverArgs.lower_bounds) = solverArgs.dim
    /\ Len(solverArgs.upper_bounds) = solverArgs.dim
    /\ \A i \in 1..solverArgs.dim :
         /\ solverArgs.lower_bounds[i] \notin {"NaN", "-Inf", "+Inf"}
         /\ solverArgs.upper_bounds[i] \notin {"NaN", "-Inf", "+Inf"}
         /\ ~IsFiniteBound(lowerBounds, i) =>
              solverArgs.lower_bounds[i] = ZeroFloat
         /\ ~IsFiniteBound(upperBounds, i) =>
              solverArgs.upper_bounds[i] = ZeroFloat

\* C10 amended: the bound vectors passed have length n; they are all 0 when
\* no bounds are set, and otherwise hold the stored bounds unchanged, NaN
\* and infinite values included.
C10_BoundVectorsAreCopies ==
  gopc = "solver" =>
    /\ Len(solverArgs.lower_bounds) = solverArgs.dim
    /\ Len(solverArgs.upper_bounds) = solverArgs.dim
    /\ solverArgs.dim = dimensionality
    /\ \A i \in 1..solverArgs.dim :
         /\ solverArgs.lower_bounds[i] =
              IF lowerBounds = nil THEN ZeroFloat ELSE lowerBounds[i]
         /\ solverArgs.upper_bounds[i] =
              IF upperBounds = nil THEN ZeroFloat ELSE upperBounds[i]

C10_Witness ==
  /\ gopc = "solver"
  /\ dimensionality = 2
  /\ lowerBounds = <<"NaN", "-1">>
  /\ upperBounds = <<"+Inf", "1">>
  /\ solverArgs.lower_bounds = <<"NaN", "-1">>
  /\ solverArgs.upper_bounds = <<"+Inf", "1">>

(***************************************************************************)
(* Claims about the course of a run, checked under Spec and SpecFair.      *)
(***************************************************************************)
TransientStates == {"START", "EVAL_FG", "NEW_X", "WARNING"}
TerminalStates == {"CONVERGENCE", "ABNORMAL", "ERROR_USAGE", "ERROR_INTERNAL"}

\* C13: the run starts in state START with task 'START' for its first
\* solver call; at the end of a pass the loop goes on to another solver
\* call exactly when the state is START, EVAL_FG, NEW_X or WARNING and no
\* callback failed, and the solver is called in no other situation; in a
\* terminal state the run has returned and the solver is not called again.
C13_SolverInvocations ==
  /\ [](calls.setulb = 0 => (state = "START" /\ task = K_START /\ pc = "loop"))
  /\ [](pc \in {"loop", "done"} =>
          (pc = "loop" <=> (state \in TransientStates /\ failure.by = "none")))
  /\ [](state \in TerminalStates => pc = "done")
  /\ [][calls.setulb' # calls.setulb =>
          /\ pc = "loop"
          /\ state \in TransientStates
          /\ failure.by = "none"
          /\ calls.setulb' = calls.setulb + 1]_vars

C13_Witness ==
  /\ pc = "done"
  /\ calls.setulb = 2
  /\ trace = <<"EVAL_FG", "ABNORMAL">>
  /\ failure.by = "none"

\* A terminal token came from the solver, or a callback reported failure.
TerminalEvent ==
  \/ calls.setulb > 0 /\ state \in TerminalStates
  \/ failure.by # "none"

\* C14: a run in which every call returns has returned exactly when the
\* first terminal token or callback failure has occurred, and it eventually
\* returns unless the solver calls followed are used up before such an
\* event (or a panic unwinds the run).
C14_RunReturns ==
  /\ [](pc = "done" <=> TerminalEvent)
  /\ <>(\/ pc = "done"
        \/ panicked
        \/ pc = "loop" /\ calls.setulb = MaxSolverCalls)

C14_Witness ==
  /\ pc = "done"
  /\ trace = <<"NEW_X", "CONVERGENCE">>
  /\ status_c = LBFGSB_STATUS_SUCCESS

\* The solver emitted a WARNING token during the run.
Warned == \E i \in 1..Len(trace) : trace[i] = "WARNING"

\* C15: a run in which the solver emitted a WARNING token and no callback
\* failed returns status WARNING with the point reached as its result.
C15_WarningSurfaced ==
  (pc = "done" /\ Warned /\ failure.by = "none") =>
    /\ status_c = LBFGSB_STATUS_WARNING
    /\ min_x_c = point

\* The solver steps so far whose token was interpreted as NEW_X.
NewXSteps == Cardinality({ i \in 1..Len(trace) : trace[i] = "NEW_X" })

\* C20: with a logging function the number of its calls is the number of
\* NEW_X steps and it is called in state NEW_X only; without one nothing is
\* called for a NEW_X step and the loop continues.
C20_LoggingPerNewX ==
  /\ log_function = "set" => calls.log = NewXSteps
  /\ pc = "log" => (state = "NEW_X" /\ log_function = "set")
  /\ log_function = "null" =>
       /\ calls.log = 0
       /\ (calls.setulb > 0 /\ state = "NEW_X") => pc = "loop"

C20_Witness ==
  /\ log_function = "set"
  /\ trace = <<"NEW_X", "NEW_X">>
  /\ calls.log = 2
  /\ pc = "log"

\* C19: the stored lower and upper bounds are both nil or both of the
\* length of the solver's dimensionality, in every state.
C19_BoundsOfDimensionality ==
  \/ lowerBounds = nil /\ upperBounds = nil
  \/ /\ lowerBounds # nil /\ upperBounds # nil
     /\ Len(lowerBounds) = dimensionality
     /\ Len(upperBounds) = dimensionality

\* Sparse bounds for the second of two dimensions.
C19_Witness ==
  /\ dimensionality = 2
  /\ lowerBounds = <<"-Inf", "-1">>
  /\ upperBounds = <<"+Inf", "1">>

(***************************************************************************)
(* Claims about Minimize and the solver object, checked under SpecGoRun    *)
(* and SpecGoParameters.                                                   *)
(***************************************************************************)
\* C11: a call of Minimize with an initial point whose length differs from
\* the dimensionality of the solver (then initialized before the call, for
\* Init gives a new solver the length of the point) has returned
\* USAGE_ERROR and has not called lbfgsb_minimize_c, which alone invokes
\* the solver and the callbacks.
C11_DimensionalityMismatch ==
  minimizeCall.made /\ minimizeCall.initialPoint # dimensionality
    => /\ gopc = "idle"
       /\ exitStatus.Code = USAGE_ERROR
       /\ ~minimizeCall.solver
       /\ calls = NoCalls

\* A point of one coordinate was given to a solver of two dimensions.
C11_Witness ==
  /\ minimizeCall.made
  /\ minimizeCall.initialPoint = 1
  /\ dimensionality = 2
  /\ exitStatus = UsageError("dimensionality")

\* The entries the documentation calls bad: another type than int for
\* approximationSize and printControl or than float64 for the tolerances,
\* a size <= 0, a tolerance <= 0, a print control < 0.
DocumentedBad(parameters) ==
  \/ /\ parameters.approximationSize # Absent
     /\ \/ parameters.approximationSize.type # "int"
        \/ parameters.approximationSize.int <= 0
  \/ \E k \in {"fTolerance", "gTolerance"} :
       /\ parameters[k] # Absent
       /\ \/ parameters[k].type # "float64"
          \/ parameters[k].float \in {ZeroFloat, "-1", "-Inf"}
  \/ /\ parameters.printControl # Absent
     /\ \/ parameters.printControl.type # "int"
        \/ parameters.printControl.int < 0

\* C12: a call of Minimize with a bad entry for approximationSize,
\* fTolerance, gTolerance or printControl has returned USAGE_ERROR without
\* calling lbfgsb_minimize_c, which alone invokes the solver and the
\* callbacks; without a bad entry and with a point of the solver's
\* dimensionality it has called lbfgsb_minimize_c, with the values of the
\* entries, whatever the map holds for another key.
C12_BadParameterUsageError ==
  LET parameters == minimizeCall.parameters
  IN minimizeCall.made =>
       /\ DocumentedBad(parameters) =>
            /\ gopc = "idle"
            /\ exitStatus.Code = USAGE_ERROR
            /\ ~minimizeCall.solver
            /\ calls = NoCalls
       /\ ~DocumentedBad(parameters)
             /\ minimizeCall.initialPoint = dimensionality =>
            /\ minimizeCall.solver
            /\ gopc = "solver" =>
                 /\ solverArgs.approximation_size =
                      IF parameters.approximationSize = Absent
                      THEN approximationSize
                      ELSE parameters.approximationSize.int
                 /\ solverArgs.f_tolerance =
                      IF parameters.fTolerance = Absent
                      THEN fTolerance
                      ELSE parameters.fTolerance.float
                 /\ solverArgs.g_tolerance =
                      IF parameters.gTolerance = Absent
                      THEN gTolerance
                      ELSE parameters.gTolerance.float
                 /\ solverArgs.print_control =
                      IF parameters.printControl = Absent
                      THEN printControl
                      ELSE parameters.printControl.int

\* A negative print control was rejected in a map that also holds an
\* accepted size and an entry for another key.
C12_Witness ==
  /\ minimizeCall.made
  /\ minimizeCall.parameters.maxIterations # Absent
  /\ minimizeCall.parameters.approximationSize = IntValue(3)
  /\ minimizeCall.parameters.printControl = IntValue(0 - 1)
  /\ exitStatus = UsageError("printControl")
  /\ gopc = "idle"

\* C16: the statistics of the solver object report as many gradient
\* evaluations as function evaluations, in every state.
C16_GradientEvaluationsEqual ==
  statistics.GradientEvaluations = statistics.FunctionEvaluations

\* A run that ended on a callback failure after one evaluation.
C16_Witness ==
  /\ gopc = "idle"
  /\ minimizeCall.solver
  /\ exitStatus.Code = ExitStatusCode(LBFGSB_STATUS_FAILURE)
  /\ statistics.FunctionEvaluations = 1
  /\ statistics.GradientEvaluations = 1

\* C17: the statistics are reset at the start of each call of Minimize and
\* describe the latest call: after a call that returned without calling
\* lbfgsb_minimize_c, which made no iteration and no evaluation, they are
\* zero.
C17_StatisticsOfLatestCall ==
  minimizeCall.made /\ gopc = "idle" /\ ~minimizeCall.solver
    => statistics = ZeroStatistics

\* The fields of the solver object.
solverFields ==
  <<dimensionality, lowerBounds, upperBounds, paramVars, statistics>>

\* C18: a dimensionality that is not zero never changes, and Init on a
\* solver that has one changes no field of the solver, whatever its
\* argument.
C18_DimensionalityFixed ==
  [][ /\ dimensionality # 0 => dimensionality' = dimensionality
      /\ \A d \in InitArguments :
           dimensionality # 0 /\ Lbfgsb_InitOf(d) => UNCHANGED solverFields
    ]_vars

\* A solver of one dimension that was given bounds, an approximation size
\* and a point of two coordinates to minimize from.
C18_Witness ==
  /\ dimensionality = 1
  /\ lowerBounds # nil
  /\ approximationSize = 3
  /\ minimizeCall.made
  /\ minimizeCall.initialPoint = 2

\* C25: a call of Minimize on a solver without dimensionality gives the
\* solver the length of the initial point as its dimensionality (an empty
\* point makes Init panic: no call returns), and a call on a solver with a
\* dimensionality and an initial point of another length returns
\* USAGE_ERROR without calling the solver and leaves the dimensionality.
C25_MinimizeFixesDimensionality ==
  [][ \A n \in 0..MaxDim :
        MinimizeOf({n}, {NoParameters}) =>
          /\ dimensionality = 0 => n > 0 /\ dimensionality' = n
          /\ dimensionality # 0 /\ n # dimensionality =>
               /\ exitStatus'.Code = USAGE_ERROR
               /\ gopc' = "idle"
               /\ dimensionality' = dimensionality
    ]_vars

\* A solver nobody gave bounds or parameters has run from one point and
\* was then given a point of two coordinates.
C25_Witness ==
  /\ dimensionality = 1
  /\ lowerBounds = nil /\ upperBounds = nil
  /\ approximationSize = DefaultApproximationSize
  /\ statistics.FunctionEvaluations = 1
  /\ minimizeCall.initialPoint = 2
  /\ exitStatus = UsageError("dimensionality")

\* The interval the documentation of SetBoundsSparse gives an entry.
DocumentedInterval(entry) ==
  IF entry = <<"missing">> \/ entry = << >> THEN <<"-Inf", "+Inf">>
  ELSE IF Len(entry) = 1 THEN <<Neg(Abs(entry[1])), Abs(entry[1])>>
  ELSE <<entry[1], entry[2]>>

C21_LoggingFailure ==
  /\ [](failure.by = "log" =>
          /\ pc = "done"
          /\ min_x_c = Zeros(dim_c)
          /\ min_f_c = 0
          /\ min_g_c = Zeros(dim_c)
          /\ status_message_c = MsgLoggingFailed)
  /\ [][failure.by = "log" => calls' = calls]_vars

\* The logging function failed at the second new iterate of a run that had
\* evaluated the objective before.
C21_Witness ==
  /\ pc = "done"
  /\ failure = [by |-> "log", code |-> LBFGSB_STATUS_FAILURE]
  /\ trace = <<"EVAL_FG", "NEW_X">>
  /\ func_value = 1
  /\ status_message_c = MsgLoggingFailed

MinimizeStep ==
  \/ MinimizeOf(0..MaxDim, Overrides)
  \/ MinimizeReturnsOf(SolverOutcomes)

\* A call that reaches the solver gives it the control codes and bound
\* vectors the call before gave it, the bounds not having been set since.
SameBoundsPresented ==
  (gopc' = "solver" /\ minimizeCall.presented # NotPresented) =>
    /\ minimizeCall'.presented = minimizeCall.presented
    /\ solverArgs'.bounds_control = minimizeCall.presented.bounds_control
    /\ solverArgs'.lower_bounds = minimizeCall.presented.lower_bounds
    /\ solverArgs'.upper_bounds = minimizeCall.presented.upper_bounds

\* C23 as stated: Minimize leaves the stored bounds and the stored
\* parameters unchanged, also when the parameters argument overrides them,
\* and two successive calls with unchanged bounds give the solver the same
\* control codes and bound vectors.
C23_MinimizeLeavesSolver ==
  [][ MinimizeStep =>
        /\ UNCHANGED <<lowerBounds, upperBounds, paramVars>>
        /\ SameBoundsPresented ]_vars

\* C23 amended: Minimize leaves the stored bounds and the print control
\* unchanged; it leaves the approximation size and the tolerances of an
\* initialized solver unchanged, also when the parameters argument
\* overrides them, and on a solver without dimensionality it replaces those
\* that are zero by their defaults, as Init does; two successive calls with
\* unchanged bounds give the solver the same control codes and bound
\* vectors.
C23_MinimizeLeavesInitializedSolver ==
  [][ MinimizeStep =>
        /\ UNCHANGED <<lowerBounds, upperBounds, printControl>>
        /\ dimensionality # 0 => UNCHANGED paramVars
        /\ dimensionality = 0 =>
             /\ approximationSize' =
                  IF approximationSize = 0 THEN DefaultApproximationSize
                  ELSE approximationSize
             /\ fTolerance' =
                  IF fTolerance = ZeroFloat THEN DefaultTolerance
                  ELSE fTolerance
             /\ gTolerance' =
                  IF gTolerance = ZeroFloat THEN DefaultTolerance
                  ELSE gTolerance
        /\ SameBoundsPresented ]_vars

\* A second call, overriding the approximation size 5 of the solver by 3,
\* is in the solver with the bounds the first call gave it.
C23_Witness ==
  /\ gopc = "solver"
  /\ statistics # ZeroStatistics
  /\ lowerBounds # nil
  /\ approximationSize = DefaultApproximationSize
  /\ minimizeCall.parameters.approximationSize = IntValue(3)
  /\ solverArgs.approximation_size = 3
  /\ solverArgs.lower_bounds = lowerBounds

(***************************************************************************)
(* SpecConcurrent: two calls of Minimize on distinct solver objects, each  *)
(* on its own thread, and the storage their calls of lbfgsb_minimize use.  *)
(***************************************************************************)
\* The calls, one per solver object.
Invocations == {1, 2}

\* The state of one call: the locals of Minimize that lbfgsb_minimize_c is
\* given (lbfgsb.go) and the locals of lbfgsb_minimize (lbfgsb_c.f03).
GoLocals ==
  { "boundsControl", "lowerBounds", "upperBounds", "callbackData",
    "minimum", "statusMessageBuffer" }
FortranLocals ==
  { "point", "func_value", "f_factor", "task", "char_state", "state",
    "message", "bool_state", "int_state", "working_int_memory",
    "grad_value", "real_state", "working_real_memory" }
DriverState == GoLocals \cup FortranLocals

\* How a variable is declared.  The locals of lbfgsb_minimize have no save
\* attribute and no initialization, and the module has no variables; the
\* Go variables are locals of Minimize, the package has no variables.
declaration_saved_memory(v) ==
  [ save |-> v \in {"working_int_memory", "working_real_memory"},
    initialized |-> FALSE, global |-> FALSE ]

declaration(v) ==
  [save |-> FALSE, initialized |-> FALSE, global |-> FALSE]

\* A saved or initialized local and a module or package variable have one
\* storage for all calls; any other local has storage of its own in each
\* call.
storage(v) ==
  IF declaration(v).save \/ declaration(v).initialized
       \/ declaration(v).global
  THEN "static" ELSE "automatic"

\* The storage cell call i uses for variable v.
cell(i, v) == IF storage(v) = "static" THEN <<v, 0>> ELSE <<v, i>>

Cells == { cell(i, v) : i \in Invocations, v \in DriverState }

\* Call i reads or writes the variables vs.
access(i, vs) ==
  [ c \in Cells |->
      IF \E v \in vs : c = cell(i, v) THEN accessed[c] \cup {i}
      ELSE accessed[c] ]

\* The arguments of setulb that are driver state.
setulb_arguments ==
  { "point", "func_value", "grad_value", "working_real_memory",
    "working_int_memory", "task", "char_state", "bool_state", "int_state",
    "real_state" }

sequentialVars ==
  <<taskVars, caller, dim_c, log_function, initial_point_c, sparseBounds,
    asError, localVars, resultVars, historyVars, goVars>>

Goto(i, position) == frames' = [frames EXCEPT ![i].pc = position]

\* Minimize makes its copies and buffers and calls lbfgsb_minimize_c;
\* lbfgsb_minimize sets the point, the factor, the state and the task.
Enter(i) ==
  /\ frames[i].pc = "idle"
  /\ Goto(i, "loop")
  /\ accessed' =
       access(i, GoLocals \cup {"point", "f_factor", "state", "task"})
  /\ UNCHANGED sequentialVars

\* The loop calls setulb and interprets the task.
CallSetulb(i) ==
  /\ frames[i].pc = "loop"
  /\ frames[i].setulb < MaxSolverCalls
  /\ frames' = [frames EXCEPT ![i] =
                  [pc |-> "dispatch", setulb |-> frames[i].setulb + 1]]
  /\ accessed' = access(i, setulb_arguments \cup {"state", "message"})
  /\ UNCHANGED sequentialVars

\* An evaluation: the objective function is given the point and the
\* function value.
CallObjective(i) ==
  /\ frames[i].pc = "dispatch"
  /\ Goto(i, "gradient")
  /\ accessed' =
       access(i, {"state", "point", "func_value", "callbackData",
                  "statusMessageBuffer"})
  /\ UNCHANGED sequentialVars

\* The gradient function is given the point and the gradient.
CallGradient(i) ==
  /\ frames[i].pc = "gradient"
  /\ Goto(i, "loop")
  /\ accessed' =
       access(i, {"point", "grad_value", "callbackData",
                  "statusMessageBuffer"})
  /\ UNCHANGED sequentialVars

\* An iteration, a warning or an unrecognized state: no evaluation.
NoEvaluation(i) ==
  /\ frames[i].pc = "dispatch"
  /\ Goto(i, "loop")
  /\ accessed' = access(i, {"state", "int_state", "real_state"})
  /\ UNCHANGED sequentialVars

\* The loop ends: lbfgsb_minimize gives its results.
Return(i) ==
  /\ frames[i].pc \in {"dispatch", "gradient"}
  /\ Goto(i, "returned")
  /\ accessed' =
       access(i, {"state", "message", "task", "int_state", "point",
                  "func_value", "grad_value", "minimum",
                  "statusMessageBuffer"})
  /\ UNCHANGED sequentialVars

\* Minimize makes the exit status of the status message and returns the
\* minimum.
MinimizeDone(i) ==
  /\ frames[i].pc = "returned"
  /\ Goto(i, "done")
  /\ accessed' = access(i, {"minimum", "statusMessageBuffer"})
  /\ UNCHANGED sequentialVars

InitConcurrent ==
  /\ GoIdle
  /\ NoSparseBounds
  /\ frames = [i \in Invocations |-> [pc |-> "idle", setulb |-> 0]]
  /\ accessed = [c \in Cells |-> {}]

NextConcurrent ==
  \E i \in Invocations :
    \/ Enter(i)
    \/ CallSetulb(i)
    \/ CallObjective(i)
    \/ CallGradient(i)
    \/ NoEvaluation(i)
    \/ Return(i)
    \/ MinimizeDone(i)

SpecConcurrent == InitConcurrent /\ [][NextConcurrent]_vars

\* C24: of two calls of Minimize running at the same time on distinct
\* solver objects, neither reads or writes the task, the state, the point,
\* the function value, the gradient, the solver's saved state or the
\* working memory of the other: every storage cell of the state of a call
\* is read and written by that call only.
C24_NoSharedDriverState ==
  \A i \in Invocations : \A v \in DriverState :
    accessed[cell(i, v)] \subseteq {i}

\* Both calls are in their loops, each having called setulb with its
\* working memory.
C24_Witness ==
  /\ frames[1].pc = "dispatch"
  /\ frames[2].pc = "gradient"
  /\ accessed[cell(1, "working_real_memory")] = {1}
  /\ accessed[cell(2, "working_real_memory")] = {2}
  /\ accessed[cell(2, "task")] = {2}

(***************************************************************************)
(* SpecExitStatus: ExitStatus as an error (optim.go).                      *)
(***************************************************************************)
\* ExitStatusCode.String
ExitStatusCode_String(esc) ==
  CASE esc = SUCCESS -> "SUCCESS"
    [] esc = APPROXIMATE -> "APPROXIMATE"
    [] esc = WARNING -> "WARNING"
    [] esc = FAILURE -> "FAILURE"
    [] esc = USAGE_ERROR -> "USAGE_ERROR"
    [] esc = INTERNAL_ERROR -> "INTERNAL_ERROR"
    [] OTHER -> "UNKNOWN"

\* ExitStatus.String: the text Sprintf makes, as its pieces in order.  %v
\* gives a code by its String method.
ExitStatus_String_of_code(es) ==
  <<"Exit status: ", ExitStatusCode_String(es.Code), "; Message: ;">>

ExitStatus_String(es) ==
  <<"Exit status: ", ExitStatusCode_String(es.Code), "; Message: ",
    es.Message, ";">>

\* ExitStatus.Error, of the exit status an error points to.
ExitStatus_Error(es) == ExitStatus_String(es)

\* ExitStatus.AsError: nil for SUCCESS, else a pointer to the copy of the
\* exit status the method was called on.
AsError(es) ==
  IF es.Code # SUCCESS THEN [isNil |-> FALSE, status |-> es] ELSE NilError

\* Every value of the uint8 code, with the messages Minimize gives and one
\* more.
ExitStatuses ==
  [ Code : 0..255,
    Message : {"", "statusMessage_c", "dimensionality", "message"} ]

\* A caller asks an exit status for its error.
AsErrorCall ==
  /\ \E es \in ExitStatuses :
       asError' = [called |-> TRUE, of |-> es, error |-> AsError(es)]
  /\ UNCHANGED <<taskVars, caller, dim_c, log_function, initial_point_c,
                 frameVars, sparseBounds, localVars, resultVars,
                 historyVars, goVars>>

NextExitStatus == AsErrorCall

SpecExitStatus == InitGo /\ [][NextExitStatus]_vars

\* The names of the codes other than SUCCESS.
CodeNames ==
  <<"APPROXIMATE", "WARNING", "FAILURE", "USAGE_ERROR", "INTERNAL_ERROR">>

HasPiece(text, piece) == \E i \in DOMAIN text : text[i] = piece

\* C27: AsError returns nil for the code SUCCESS and for no other code; the
\* error it returns for another code is of the exit status it was called
\* on, its text contains the message, and the name of the code when the
\* code is one of the five named codes.
C27_AsError ==
  asError.called =>
    /\ asError.error.isNil <=> asError.of.Code = SUCCESS
    /\ ~asError.error.isNil =>
         /\ asError.error.status = asError.of
         /\ HasPiece(ExitStatus_Error(asError.error.status),
                     asError.of.Message)
         /\ asError.of.Code \in DOMAIN CodeNames =>
              HasPiece(ExitStatus_Error(asError.error.status),
                       CodeNames[asError.of.Code])

\* The error of the exit status Minimize gives a point of the wrong length.
C27_Witness ==
  /\ asError.called
  /\ asError.of = UsageError("dimensionality")
  /\ ~asError.error.isNil
  /\ ExitStatus_Error(asError.error.status) =
       <<"Exit status: ", "USAGE_ERROR", "; Message: ", "dimensionality", ";">>

(***************************************************************************)
(* Claims about the order of the calls in the loop, checked under Spec.    *)
(***************************************************************************)
\* The words of the tasks that ask for an evaluation.
EvaluationWords == {K_FG, K_FG_LNSRCH, K_FG_START}

\* C28: no callback is called before the first solver call; an objective
\* call is made in the pass of a solver call that returned a task FG,
\* FG_START or FG_LNSRCH, directly after it; a gradient call is made after
\* its objective call has returned, with no solver call in between and at
\* the same point; a run that returned without a callback failure has made
\* as many gradient calls as objective calls.
C28_CallbackOrder ==
  /\ [](calls.setulb = 0 =>
          /\ calls.func = 0 /\ calls.grad = 0 /\ calls.log = 0
          /\ pc \notin {"func", "grad", "log"})
  /\ [](pc = "func" =>
          /\ state = "EVAL_FG"
          /\ \E k \in EvaluationWords : FEq(task_word(task), k)
          /\ trace[Len(trace)] = "EVAL_FG")
  /\ [][calls.func' # calls.func =>
          /\ calls.func' = calls.func + 1
          /\ calls.setulb' = calls.setulb + 1
          /\ pc = "loop" /\ pc' = "func"]_vars
  /\ [][calls.grad' # calls.grad =>
          /\ calls.grad' = calls.grad + 1
          /\ pc = "func" /\ pc' = "grad"
          /\ calls.setulb' = calls.setulb
          /\ point' = point /\ task' = task]_vars
  /\ []((pc = "done" /\ failure.by = "none" /\ ~panicked) =>
          calls.grad = calls.func)

\* The gradient is being evaluated for the second time, at the point of
\* the second solver call.
C28_Witness ==
  /\ pc = "grad"
  /\ trace = <<"EVAL_FG", "EVAL_FG">>
  /\ calls = [setulb |-> 2, func |-> 2, grad |-> 2, log |-> 0]
  /\ point # initial_point_c

\* C29: a solver call that returned a WARNING task is followed by no call
\* of the objective, the gradient or the logging function in its pass: the
\* loop goes on to the next solver call, which is given the task as the
\* solver returned it.
C29_WarningStep ==
  /\ [](state = "WARNING" =>
          /\ pc = "loop"
          /\ FEq(task_word(task), K_WARNING)
          /\ trace[Len(trace)] = "WARNING")
  /\ [][(state' = "WARNING" /\ calls.setulb' # calls.setulb) =>
          /\ calls.func' = calls.func
          /\ calls.grad' = calls.grad
          /\ calls.log' = calls.log]_vars
  /\ [][state = "WARNING" =>
          /\ calls.setulb' = calls.setulb + 1
          /\ Len(trace') = Len(trace) + 1]_vars

\* The solver was called again after a WARNING task and asked for an
\* evaluation.
C29_Witness ==
  /\ trace = <<"WARNING", "EVAL_FG">>
  /\ pc = "func"
  /\ calls = [setulb |-> 2, func |-> 1, grad |-> 0, log |-> 0]

\* C30: between two solver calls the driver changes neither the task, nor
\* the point, nor the saved state of the solver; of what the solver is
\* given only the function value and the gradient change, the one in the
\* objective call and the other in the gradient call.
C30_SolverStateBetweenCalls ==
  /\ [][calls.setulb' = calls.setulb =>
          /\ task' = task
          /\ point' = point
          /\ int_state' = int_state]_vars
  /\ [][func_value' # func_value => pc = "func"]_vars
  /\ [][grad_value' # grad_value => pc = "grad"]_vars

\* The second solver call was given the function value and the gradient
\* the callbacks wrote, and logging follows it.
C30_Witness ==
  /\ calls = [setulb |-> 2, func |-> 1, grad |-> 1, log |-> 1]
  /\ trace = <<"EVAL_FG", "NEW_X">>
  /\ pc = "log"
  /\ func_value = 1
  /\ grad_value = Ones(dim_c)

(***************************************************************************)
(* Claims about the exit status of the driver, checked under Spec.         *)
(***************************************************************************)
\* The exit status code a run has by the state of its last token.
CodeOfState(st) ==
  CASE st = "CONVERGENCE" -> LBFGSB_STATUS_SUCCESS
    [] st = "ABNORMAL" -> LBFGSB_STATUS_APPROXIMATE
    [] st = "WARNING" -> LBFGSB_STATUS_WARNING
    [] st = "ERROR_USAGE" -> LBFGSB_STATUS_USAGE_ERROR
    [] OTHER -> LBFGSB_STATUS_INTERNAL_ERROR

FloatGtZero(f) == f \in {"+Inf", "1", DefaultTolerance}

\* C32: whenever Minimize invokes the solver, the dimensionality, the
\* approximation size, the F tolerance and the G tolerance it passes are
\* greater than zero and the print control is at least zero.
C32_SolverArgumentsPositive ==
  gopc = "solver" =>
    /\ solverArgs.dim > 0
    /\ solverArgs.approximation_size > 0
    /\ FloatGtZero(solverArgs.f_tolerance)
    /\ FloatGtZero(solverArgs.g_tolerance)
    /\ solverArgs.print_control >= 0


\* C38: a call of Init or of a setter that panics leaves every field of
\* the solver as it was: SetApproximationSize with a size <= 0,
\* SetFTolerance and SetGTolerance with a value <= 0, SetFortranPrintControl
\* with a value < 0, SetBounds with bounds of another length than the
\* dimensionality, SetBoundsAll and SetBoundsSparse on a solver without
\* dimensionality.
C38_PanicLeavesSolver ==
  [][gopc' = "panicked" => UNCHANGED solverFields]_vars

\* SetBounds panicked on a solver of dimensionality 1 with bounds, changed
\* parameters and statistics of a run.
C38_Witness ==
  /\ gopc = "panicked"
  /\ dimensionality = 1
  /\ lowerBounds = <<"-1">>
  /\ approximationSize = 3
  /\ fTolerance = "NaN"
  /\ printControl = 1
  /\ statistics # ZeroStatistics


(***************************************************************************)
(* Claim about the earlier variant of Minimize, checked under              *)
(* SpecGoEarlier.                                                          *)
(***************************************************************************)
\* C39: in the earlier Minimize variant, a stored lower or upper bound
\* vector whose length differs from the length of the initial point makes
\* the call return USAGE_ERROR without invoking the solver.
C39_EarlierDisagreementReturns ==
  [][ ( /\ EarlierMinimize
        /\ \/ lowerBounds # nil
              /\ Len(lowerBounds) # minimizeCall'.initialPoint
           \/ upperBounds # nil
              /\ Len(upperBounds) # minimizeCall'.initialPoint )
      => /\ gopc' = "idle"
         /\ exitStatus'.Code = USAGE_ERROR ]_vars


\* C33: the call that gives the solver its dimensionality (the first Init,
\* or the first Minimize or SetBounds on a zero-value solver) replaces by
\* their defaults 5, 1e-6 and 1e-6 only the parameters that are still zero:
\* an approximation size or tolerance a setter has stored before stays, no
\* later Init changes it, and it is the value a Minimize without overrides
\* gives the solver.
C33_DefaultsForUnsetParameters ==
  [][ /\ (dimensionality = 0 /\ dimensionality' # 0) =>
           /\ approximationSize' =
                IF approximationSize = 0 THEN DefaultApproximationSize
                ELSE approximationSize
           /\ fTolerance' =
                IF fTolerance = ZeroFloat THEN DefaultTolerance
                ELSE fTolerance
           /\ gTolerance' =
                IF gTolerance = ZeroFloat THEN DefaultTolerance
                ELSE gTolerance
      /\ (dimensionality # 0 /\ InitCall) => UNCHANGED paramVars
      /\ (gopc' = "solver" /\ minimizeCall'.parameters = NoParameters) =>
           /\ approximationSize # 0 =>
                solverArgs'.approximation_size = approximationSize
           /\ fTolerance # ZeroFloat =>
                solverArgs'.f_tolerance = fTolerance
           /\ gTolerance # ZeroFloat =>
                solverArgs'.g_tolerance = gTolerance
    ]_vars

\* The first Minimize of a solver whose approximation size and G tolerance
\* were set is in the solver with them and with the default F tolerance.
C33_Witness ==
  /\ gopc = "solver"
  /\ statistics = ZeroStatistics
  /\ minimizeCall.parameters = NoParameters
  /\ approximationSize = 3
  /\ fTolerance = DefaultTolerance
  /\ gTolerance = "1"
  /\ solverArgs.approximation_size = 3
  /\ solverArgs.f_tolerance = DefaultTolerance
  /\ solverArgs.g_tolerance = "1"


\* A call of Minimize that returns USAGE_ERROR before it invokes the
\* solver.
MinimizeReturnsUsageError ==
  /\ MinimizeOf(0..MaxDim, ToleranceOverrides)
  /\ gopc' = "idle"
  /\ exitStatus'.Code = USAGE_ERROR

\* C34 as stated: a Minimize call that returns USAGE_ERROR before invoking
\* the solver leaves dimensionality, bounds, parameters and statistics of
\* the solver object as they were.
C34_UsageErrorLeavesSolver ==
  [][MinimizeReturnsUsageError => UNCHANGED solverFields]_vars

\* C34 amended: such a call leaves the bounds, the print control and the
\* statistics as they were, and on a solver that has a dimensionality also
\* the dimensionality, the approximation size and the tolerances; on a
\* solver without dimensionality it has called Init first, which gives it
\* the length of the initial point as dimensionality and the defaults for
\* the parameters that are zero.
C34_UsageErrorLeavesInitializedSolver ==
  [][ MinimizeReturnsUsageError =>
        /\ UNCHANGED <<lowerBounds, upperBounds, printControl, statistics>>
        /\ dimensionality # 0 => UNCHANGED <<dimensionality, paramVars>>
        /\ dimensionality = 0 =>
             /\ dimensionality' = minimizeCall'.initialPoint
             /\ approximationSize' =
                  IF approximationSize = 0 THEN DefaultApproximationSize
                  ELSE approximationSize
             /\ fTolerance' =
                  IF fTolerance = ZeroFloat THEN DefaultTolerance
                  ELSE fTolerance
             /\ gTolerance' =
                  IF gTolerance = ZeroFloat THEN DefaultTolerance
                  ELSE gTolerance ]_vars

\* A call with a negative F tolerance in its parameters returned
\* USAGE_ERROR on a solver that had run before, with bounds and an
\* approximation size set.
C34_Witness ==
  /\ gopc = "idle"
  /\ exitStatus.Code = USAGE_ERROR
  /\ minimizeCall.made
  /\ ~minimizeCall.solver
  /\ minimizeCall.parameters.fTolerance = FloatValue("-1")
  /\ dimensionality = MaxDim
  /\ lowerBounds # nil
  /\ approximationSize = 3
  /\ statistics # ZeroStatistics


(***************************************************************************)
(* More claims about the driver loop, checked under Spec.                  *)
(***************************************************************************)
\* C35: a run never modifies the caller's initial point: the point the
\* first solver invocation is given is a copy with the same values, and
\* whatever the solver writes to its point afterwards, the caller's array
\* keeps its values.
C35_InitialPointUnchanged ==
  /\ [](calls.setulb = 0 => point = initial_point_c)
  /\ [][initial_point_c' = initial_point_c]_vars

\* A run has ended at a point that is not the initial point.
C35_Witness ==
  /\ pc = "done"
  /\ calls.setulb = MaxSolverCalls
  /\ status_c = LBFGSB_STATUS_SUCCESS
  /\ initial_point_c = Ones(dim_c)
  /\ point = Zeros(dim_c)
  /\ min_x_c = Zeros(dim_c)


\* C36: the iteration and evaluation counts a run returns are the solver's
\* own counters as they are when the loop has ended, after a callback
\* failure as after a final token: the driver writes them once, at the end,
\* and only a solver invocation changes the counters.  A run whose first
\* objective call fails returns the counters and not the number of calls.
C36_CountsAreSolverCounters ==
  /\ [](pc = "done" =>
          /\ iters_c = int_state.iter
          /\ evals_c = int_state.evals)
  /\ [][ /\ pc' # "done" => UNCHANGED <<iters_c, evals_c>>
         /\ int_state' # int_state => calls'.setulb = calls.setulb + 1
       ]_vars

\* The first objective call of a run has failed: one evaluation was
\* attempted, and the run returns the solver's counts, one iteration and no
\* evaluation.
C36_Witness ==
  /\ pc = "done"
  /\ caller = "c"
  /\ failure.by = "func"
  /\ calls.func = 1
  /\ int_state = [iter |-> 1, evals |-> 0]
  /\ iters_c = 1
  /\ evals_c = 0


C40_BufferNullTerminated ==
  pc = "converted" =>
    LET size == Len(status_message_c)
        length == Min(len_trim(message), size - 1)
    IN /\ accessed \subseteq 1..size
       /\ \A i \in 1..length : status_message_c[i] = message[i]
       /\ \A i \in (length + 1)..size : status_message_c[i] = c_null_char
       /\ length + 1 <= size
       /\ \E i \in 1..size : status_message_c[i] = c_null_char

====
